---- MODULE Spec2Model ----
(***************************************************************************)
(* Model of the workflow step executors of                                 *)
(* inference/enterprise/deployments/complier/steps_executors/auxiliary.py  *)
(* (detection consensus: filtering, cross-source IOU matching, voting,     *)
(* merging, presence verdict, and the DetectionsConsensus step).           *)
(*                                                                         *)
(* Conventions:                                                            *)
(*  - a Detection is a record [id, parent_id, class, class_id, confidence, *)
(*    x, y, width, height]; ids are naturals (uuid4 strings in the code,   *)
(*    fresh ones drawn from a counter);                                    *)
(*  - a float confidence / IOU is an exact rational [num, den], den > 0,   *)
(*    kept in lowest terms so that equal values are equal records;         *)
(*  - Python's round() is round-half-to-even.                              *)
(***************************************************************************)
EXTENDS Integers, Sequences, FiniteSets, TLC

\* ------------------------------------------------------------------ bounds

\* most prediction sources handed to one consensus run of the dense family
MaxSources == 2
\* most detections, over all sources, of one consensus run of the dense family
MaxDetections == 2
\* largest required_votes / required_objects count tried
MaxVotes == 3
\* most images in a batch handed to the DetectionsConsensus step
MaxBatch == 3

\* ------------------------------------------------------------- arithmetic

RECURSIVE GCD(_, _)
GCD(a, b) == IF b = 0 THEN a ELSE GCD(b, a % b)

Abs(n) == IF n < 0 THEN -n ELSE n

Max2(a, b) == IF a >= b THEN a ELSE b

Min2(a, b) == IF a <= b THEN a ELSE b

\* a rational in lowest terms with a positive denominator
Rat(n, d) ==
    LET g == GCD(Abs(n), Abs(d))
        s == IF d < 0 THEN -1 ELSE 1
    IN  [num |-> s * (n \div g), den |-> s * (d \div g)]

RatLT(a, b) == a.num * b.den < b.num * a.den

RatLE(a, b) == a.num * b.den <= b.num * a.den

RatAdd(a, b) == Rat(a.num * b.den + b.num * a.den, a.den * b.den)

RECURSIVE RatSum(_)
RatSum(vs) == IF vs = <<>> THEN Rat(0, 1) ELSE RatAdd(Head(vs), RatSum(Tail(vs)))

\* max(values): the first greatest value
RECURSIVE RatMaxOf(_)
RatMaxOf(vs) ==
    IF Len(vs) = 1 THEN vs[1]
    ELSE LET r == RatMaxOf(Tail(vs)) IN IF RatLT(vs[1], r) THEN r ELSE vs[1]

\* min(values)
RECURSIVE RatMinOf(_)
RatMinOf(vs) ==
    IF Len(vs) = 1 THEN vs[1]
    ELSE LET r == RatMinOf(Tail(vs)) IN IF RatLT(r, vs[1]) THEN r ELSE vs[1]

\* statistics.mean(values)
RatMean(vs) == LET s == RatSum(vs) IN Rat(s.num, s.den * Len(vs))

\* Python round(n / d) for d > 0: nearest integer, a tie going to the even one
PyRoundDiv(n, d) ==
    LET q == n \div d
        r == n % d
    IN  IF 2 * r < d THEN q
        ELSE IF 2 * r > d THEN q + 1
        ELSE IF q % 2 = 0 THEN q ELSE q + 1

\* ------------------------------------------------------------ aggregation

ModeMax == "max"
ModeMin == "min"
ModeAverage == "average"
AggregationMode == {ModeMax, ModeMin, ModeAverage}

\* the Python exceptions the modelled code can end with
NoError == "none"
ExecutionGraphError == "ExecutionGraphError"
IndexError == "IndexError"
AttributeError == "AttributeError"
ValueError == "ValueError"
StatisticsError == "StatisticsError"

\* aggregate_field_values(detections, "confidence", mode):
\* AGGREGATION_MODE2FIELD_AGGREGATOR[mode] applied to the confidences
AggregateConfidence(detections, mode) ==
    LET values == [i \in 1..Len(detections) |-> detections[i].confidence]
    IN  IF mode = ModeMax THEN RatMaxOf(values)
        ELSE IF mode = ModeMin THEN RatMinOf(values)
        ELSE RatMean(values)

\* ---------------------------------------------------------------- geometry

\* detection_to_xyxy: x_min = round(x - width / 2), x_max = round(x_min + width)
XyxyFrom(x_min, y_min, width, height) ==
    [x_min |-> x_min, y_min |-> y_min, x_max |-> x_min + width, y_max |-> y_min + height]

DetectionToXyxy(d) ==
    XyxyFrom(PyRoundDiv(2 * d.x - d.width, 2), PyRoundDiv(2 * d.y - d.height, 2), d.width, d.height)

\* calculate_iou, lines 701-705: the area of the intersection rectangle
IntersectionArea(box_a, box_b) ==
    Max2(0, Min2(box_a.x_max, box_b.x_max) - Max2(box_a.x_min, box_b.x_min) + 1)
        * Max2(0, Min2(box_a.y_max, box_b.y_max) - Max2(box_a.y_min, box_b.y_min) + 1)

\* calculate_iou, lines 706-707: the area of one box
BboxArea(box) == (box.x_max - box.x_min + 1) * (box.y_max - box.y_min + 1)

\* calculate_iou, line 708: intersection / float(bbox_a_area + bbox_b_area - intersection)
\* (the divisor is positive for boxes of positive extent)
IouOfAreas(intersection, bbox_a_area, bbox_b_area) ==
    Rat(intersection, bbox_a_area + bbox_b_area - intersection)

BoxesIou(box_a, box_b) ==
    IouOfAreas(IntersectionArea(box_a, box_b), BboxArea(box_a), BboxArea(box_b))

\* calculate_iou
CalculateIou(detection_a, detection_b) ==
    BoxesIou(DetectionToXyxy(detection_a), DetectionToXyxy(detection_b))

\* --------------------------------------------------------------- filtering

\* classes_to_consider: None, or a list of class names
NoClasses == [given |-> FALSE, classes |-> {}]
ClassesGiven(cs) == [given |-> TRUE, classes |-> cs]

\* confidence_matches
ConfidenceMatches(detection, confidence_threshold) ==
    RatLT(confidence_threshold, detection.confidence)

\* confidence_and_class_match
ConfidenceAndClassMatch(detection, confidence_threshold, classes) ==
    /\ ConfidenceMatches(detection, confidence_threshold)
    /\ detection.class \in classes

\* the predicate filter_predictions selects
DetectionMatches(detection, confidence, classes_to_consider) ==
    IF classes_to_consider.given
    THEN ConfidenceAndClassMatch(detection, confidence, classes_to_consider.classes)
    ELSE ConfidenceMatches(detection, confidence)

RECURSIVE FilterDetections(_, _, _)
FilterDetections(detections, confidence, classes_to_consider) ==
    IF detections = <<>> THEN <<>>
    ELSE LET rest == FilterDetections(Tail(detections), confidence, classes_to_consider)
         IN  IF DetectionMatches(Head(detections), confidence, classes_to_consider)
             THEN <<Head(detections)>> \o rest
             ELSE rest

\* filter_predictions
FilterPredictions(predictions, confidence, classes_to_consider) ==
    [s \in 1..Len(predictions) |->
        FilterDetections(predictions[s], confidence, classes_to_consider)]

\* the threshold resolve_batch_consensus hands to filter_predictions (line 514)
PreFilterConfidence(confidence) == Rat(0, 1)

\* ---------------------------------------------------------------- matching

\* enumerate_detections: <<source_id, detection>> pairs, source by source
RECURSIVE EnumerateFrom(_, _, _)
EnumerateFrom(predictions, excluded_source, source_id) ==
    IF source_id > Len(predictions) THEN <<>>
    ELSE LET rest == EnumerateFrom(predictions, excluded_source, source_id + 1)
         IN  IF excluded_source = source_id THEN rest
             ELSE [i \in 1..Len(predictions[source_id]) |->
                      [source |-> source_id, detection |-> predictions[source_id][i]]]
                  \o rest

\* excluded_source = None
NoSource == 0

EnumerateDetections(predictions, excluded_source) ==
    EnumerateFrom(predictions, excluded_source, 1)

\* lines 680-683: current_max_overlap[other_source] = (other_detection, iou_value)
OverlapRecorded(current_max_overlap, source, other_detection, iou_value) ==
    [s \in DOMAIN current_max_overlap \cup {source} |->
        IF s = source THEN [detection |-> other_detection, iou |-> iou_value]
        ELSE current_max_overlap[s]]

\* an overlap decision that lets the later of two tied candidates win
OverlapDecisionLastWins(current_max_overlap, other, detection, iou_value, iou_threshold, class_aware, considered) ==
    IF other.detection.id \in considered
    THEN current_max_overlap
    ELSE IF class_aware /\ detection.class # other.detection.class
    THEN current_max_overlap
    ELSE IF RatLE(iou_value, iou_threshold)
    THEN current_max_overlap
    ELSE OverlapRecorded(current_max_overlap, other.source, other.detection, iou_value)

\* lines 668-683: what one candidate does to current_max_overlap once its IOU
\* with the seed is known
OverlapDecision(current_max_overlap, other, detection, iou_value, iou_threshold, class_aware, considered) ==
    IF other.detection.id \in considered
    THEN current_max_overlap
    ELSE IF class_aware /\ detection.class # other.detection.class
    THEN current_max_overlap
    ELSE IF RatLE(iou_value, iou_threshold)
    THEN current_max_overlap
    ELSE IF other.source \in DOMAIN current_max_overlap
            /\ ~RatLT(current_max_overlap[other.source].iou, iou_value)
    THEN current_max_overlap
    ELSE OverlapRecorded(current_max_overlap, other.source, other.detection, iou_value)

\* one turn of the loop of get_detections_from_different_sources_with_max_overlap;
\* current_max_overlap maps a source to [detection, iou]
OverlapStep(current_max_overlap, other, detection, iou_threshold, class_aware, considered) ==
    OverlapDecision(current_max_overlap, other, detection, CalculateIou(detection, other.detection),
                    iou_threshold, class_aware, considered)

RECURSIVE OverlapFold(_, _, _, _, _, _)
OverlapFold(current_max_overlap, others, detection, iou_threshold, class_aware, considered) ==
    IF others = <<>> THEN current_max_overlap
    ELSE OverlapFold(OverlapStep(current_max_overlap, Head(others), detection, iou_threshold, class_aware, considered),
                     Tail(others), detection, iou_threshold, class_aware, considered)

\* get_detections_from_different_sources_with_max_overlap
GetDetectionsFromDifferentSourcesWithMaxOverlap(detection, source, predictions, iou_threshold, class_aware, considered) ==
    OverlapFold([s \in {} |-> 0], EnumerateDetections(predictions, source), detection,
                iou_threshold, class_aware, considered)

\* [matched_value[0] for matched_value in detections_with_max_overlap.values()]:
\* dict insertion order, which is ascending source order
RECURSIVE MatchedFrom(_, _, _)
MatchedFrom(current_max_overlap, source_id, n_sources) ==
    IF source_id > n_sources THEN <<>>
    ELSE (IF source_id \in DOMAIN current_max_overlap
          THEN <<current_max_overlap[source_id].detection>> ELSE <<>>)
         \o MatchedFrom(current_max_overlap, source_id + 1, n_sources)

\* ----------------------------------------------------------------- merging

\* the first detection of the list whose confidence is the given one
RECURSIVE FirstWithConfidence(_, _)
FirstWithConfidence(detections, c) ==
    IF Head(detections).confidence = c THEN Head(detections)
    ELSE FirstWithConfidence(Tail(detections), c)

\* get_class_of_most_confident_detection
GetClassOfMostConfidentDetection(detections) ==
    LET d == FirstWithConfidence(detections, AggregateConfidence(detections, ModeMax))
    IN  [class |-> d.class, class_id |-> d.class_id]

\* get_class_of_least_confident_detection
GetClassOfLeastConfidentDetection(detections) ==
    LET d == FirstWithConfidence(detections, AggregateConfidence(detections, ModeMin))
    IN  [class |-> d.class, class_id |-> d.class_id]

ClassCount(detections, c) == Cardinality({i \in 1..Len(detections) : detections[i].class = c})

\* get_majority_class taking the last class, in order of appearance, with the
\* greatest count
GetMajorityClassLastOnTies(detections) ==
    LET best == CHOOSE i \in 1..Len(detections) :
                    /\ \A j \in 1..Len(detections) :
                          ClassCount(detections, detections[j].class) <= ClassCount(detections, detections[i].class)
                    /\ \A j \in (i + 1)..Len(detections) :
                          ClassCount(detections, detections[j].class) < ClassCount(detections, detections[i].class)
    IN  [class |-> detections[best].class, class_id |-> detections[best].class_id]

\* get_majority_class: Counter.most_common(1) is the first class, in order of
\* first appearance, with the greatest count
GetMajorityClass(detections) ==
    LET best == CHOOSE i \in 1..Len(detections) :
                    /\ \A j \in 1..Len(detections) :
                          ClassCount(detections, detections[j].class) <= ClassCount(detections, detections[i].class)
                    /\ \A j \in 1..(i - 1) :
                          ClassCount(detections, detections[j].class) < ClassCount(detections, detections[i].class)
    IN  [class |-> detections[best].class, class_id |-> detections[best].class_id]

\* AGGREGATION_MODE2CLASS_SELECTOR
ClassSelector(detections, mode) ==
    IF mode = ModeMax THEN GetClassOfMostConfidentDetection(detections)
    ELSE IF mode = ModeMin THEN GetClassOfLeastConfidentDetection(detections)
    ELSE GetMajorityClass(detections)

\* get_detection_sizes
GetDetectionSizes(detections) == [i \in 1..Len(detections) |-> detections[i].height * detections[i].width]

BoxOf(d) == [x |-> d.x, y |-> d.y, width |-> d.width, height |-> d.height]

\* get_smallest_bounding_box: the first detection of the smallest size
GetSmallestBoundingBox(detections) ==
    LET sizes == GetDetectionSizes(detections)
        idx == CHOOSE i \in 1..Len(sizes) :
                  /\ \A j \in 1..Len(sizes) : sizes[i] <= sizes[j]
                  /\ \A j \in 1..(i - 1) : sizes[j] > sizes[i]
    IN  BoxOf(detections[idx])

\* get_largest_bounding_box taking the last detection of the largest size
GetLargestBoundingBoxLastOnTies(detections) ==
    LET sizes == GetDetectionSizes(detections)
        idx == CHOOSE i \in 1..Len(sizes) :
                  /\ \A j \in 1..Len(sizes) : sizes[i] >= sizes[j]
                  /\ \A j \in (i + 1)..Len(sizes) : sizes[j] < sizes[i]
    IN  BoxOf(detections[idx])

\* get_largest_bounding_box: the first detection of the largest size
GetLargestBoundingBox(detections) ==
    LET sizes == GetDetectionSizes(detections)
        idx == CHOOSE i \in 1..Len(sizes) :
                  /\ \A j \in 1..Len(sizes) : sizes[i] >= sizes[j]
                  /\ \A j \in 1..(i - 1) : sizes[j] < sizes[i]
    IN  BoxOf(detections[idx])

RECURSIVE IntSum(_)
IntSum(vs) == IF vs = <<>> THEN 0 ELSE Head(vs) + IntSum(Tail(vs))

\* get_average_bounding_box: round(statistics.mean(...)) of each field
GetAverageBoundingBox(detections) ==
    LET n == Len(detections)
    IN  [x |-> PyRoundDiv(IntSum([i \in 1..n |-> detections[i].x]), n),
         y |-> PyRoundDiv(IntSum([i \in 1..n |-> detections[i].y]), n),
         width |-> PyRoundDiv(IntSum([i \in 1..n |-> detections[i].width]), n),
         height |-> PyRoundDiv(IntSum([i \in 1..n |-> detections[i].height]), n)]

\* AGGREGATION_MODE2BOXES_AGGREGATOR
BoxesAggregator(detections, mode) ==
    IF mode = ModeMax THEN GetLargestBoundingBox(detections)
    ELSE IF mode = ModeMin THEN GetSmallestBoundingBox(detections)
    ELSE GetAverageBoundingBox(detections)

\* merge_detections; fresh_id stands for the uuid4 drawn for the merged detection
MergeDetections(detections, confidence_aggregation_mode, boxes_aggregation_mode, fresh_id) ==
    LET cls == ClassSelector(detections, confidence_aggregation_mode)
        box == BoxesAggregator(detections, boxes_aggregation_mode)
    IN  [parent_id |-> detections[1].parent_id,
         id |-> fresh_id,
         class |-> cls.class,
         class_id |-> cls.class_id,
         confidence |-> AggregateConfidence(detections, confidence_aggregation_mode),
         x |-> box.x, y |-> box.y, width |-> box.width, height |-> box.height]

\* ---------------------------------------------------------------- presence

\* required_objects: None, a count, or a mapping class -> count
RequiredNone == [kind |-> "none", n |-> 0, map |-> <<>>]
RequiredCount(n) == [kind |-> "int", n |-> n, map |-> <<>>]
RequiredMap(m) == [kind |-> "dict", n |-> 0, map |-> m]

RECURSIVE SumOver(_, _)
SumOver(f, keys) ==
    IF keys = {} THEN 0
    ELSE LET k == CHOOSE k \in keys : TRUE IN f[k] + SumOver(f, keys \ {k})

\* the detections of one class, in order
RECURSIVE OfClass(_, _)
OfClass(detections, c) ==
    IF detections = <<>> THEN <<>>
    ELSE (IF Head(detections).class = c THEN <<Head(detections)>> ELSE <<>>)
         \o OfClass(Tail(detections), c)

AnyObject == "any_object"

\* the verdict check_objects_presence_in_consensus_predictions returns, or the
\* exception it ends with
Verdict(present, conf) == [error |-> NoError, object_present |-> present, presence_confidence |-> conf]
Raised(e) == [error |-> e, object_present |-> FALSE, presence_confidence |-> <<>>]

\* lines 572-577: None becomes 0, a mapping is summed when not class-aware
EffectiveRequired(required_objects, class_aware) ==
    IF required_objects.kind = "none" THEN RequiredCount(0)
    ELSE IF required_objects.kind = "dict" /\ ~class_aware
    THEN RequiredCount(SumOver(required_objects.map, DOMAIN required_objects.map))
    ELSE required_objects

\* lines 585-599 with <= in place of < at line 589
ClassAwarePresenceOffByOne(consensus_detections, aggregation_mode, required) ==
    IF required.kind # "dict" THEN Raised(AttributeError)
    ELSE IF \E c \in DOMAIN required.map :
                Len(OfClass(consensus_detections, c)) <= required.map[c]
    THEN Verdict(FALSE, <<>>)
    ELSE Verdict(TRUE, [c \in {consensus_detections[i].class : i \in 1..Len(consensus_detections)} |->
             AggregateConfidence(OfClass(consensus_detections, c), aggregation_mode)])

\* lines 585-599: the class-aware branch; required_objects.items() exists only
\* for a mapping, and class2detections (a defaultdict) gains an empty entry for
\* every requested class it is asked about
ClassAwarePresence(consensus_detections, aggregation_mode, required) ==
    LET seen == {consensus_detections[i].class : i \in 1..Len(consensus_detections)}
    IN  IF required.kind # "dict" THEN Raised(AttributeError)
        ELSE IF \E c \in DOMAIN required.map :
                    Len(OfClass(consensus_detections, c)) < required.map[c]
        THEN Verdict(FALSE, <<>>)
        ELSE IF \E c \in DOMAIN required.map : c \notin seen
        THEN Raised(IF aggregation_mode = ModeAverage THEN StatisticsError ELSE ValueError)
        ELSE Verdict(TRUE, [c \in seen |->
                 AggregateConfidence(OfClass(consensus_detections, c), aggregation_mode)])

\* check_objects_presence_in_consensus_predictions
CheckObjectsPresenceInConsensusPredictions(consensus_detections, class_aware, aggregation_mode, required_objects) ==
    LET required == EffectiveRequired(required_objects, class_aware)
    IN  IF Len(consensus_detections) = 0 THEN Verdict(FALSE, <<>>)
        ELSE IF ~class_aware /\ Len(consensus_detections) < required.n
        THEN Verdict(FALSE, <<>>)
        ELSE IF ~class_aware
        THEN Verdict(TRUE, [k \in {AnyObject} |->
                 AggregateConfidence(consensus_detections, aggregation_mode)])
        ELSE ClassAwarePresence(consensus_detections, aggregation_mode, required)

\* --------------------------------------------------- resolve_batch_consensus

\* get_parent_id_of_predictions_from_different_sources: the set it builds
EncounteredParentIds(predictions) ==
    UNION {{predictions[s][i].parent_id : i \in 1..Len(predictions[s])} : s \in 1..Len(predictions)}

NoParent == "undefined"

\* get_parent_id_of_predictions_from_different_sources: more than one parent id
\* raises ExecutionGraphError, and list(encountered_parent_ids)[0] of an empty
\* set raises IndexError
GetParentIdOfPredictionsFromDifferentSources(predictions) ==
    LET ids == EncounteredParentIds(predictions)
    IN  IF Cardinality(ids) > 1 THEN [error |-> ExecutionGraphError, parent_id |-> NoParent]
        ELSE IF ids = {} THEN [error |-> IndexError, parent_id |-> NoParent]
        ELSE [error |-> NoError, parent_id |-> CHOOSE q \in ids : TRUE]

\* line 530 with the seed's own vote forgotten: one more match is asked for
QuorumWithoutSeed(n_matches, required_votes) == n_matches >= required_votes

\* line 530 with the seed's vote counted twice: one match fewer is asked for
QuorumShortByOne(n_matches, required_votes) == n_matches >= required_votes - 2

\* line 530: len(detections_with_max_overlap) >= (required_votes - 1)
QuorumReached(n_matches, required_votes) == n_matches >= required_votes - 1

\* line 540 with > in place of >=
ConfidenceClearedStrictly(merged_confidence, confidence) == RatLT(confidence, merged_confidence)

\* line 540: merged_detection["confidence"] >= confidence
ConfidenceCleared(merged_confidence, confidence) == RatLE(confidence, merged_confidence)

\* the loop state of resolve_batch_consensus:
\*   considered  detections_already_considered
\*   consensus   consensus_detections
\*   groups      for each accepted consensus detection, the ids of the source
\*               detections merged into it (seed first), a history of the run
\*   uuid        how many uuid4 values were drawn
\*   last        what the latest iteration did, a history of the run
NoIteration == [seed |-> 0, source |-> 0, votes |-> 0, members |-> <<>>, merged |-> FALSE, confidence |-> Rat(0, 1), accepted |-> FALSE]

InitLoop == [considered |-> {}, consensus |-> <<>>, groups |-> <<>>, uuid |-> 0, last |-> NoIteration]

\* the ids of the detections of a list, in order
MemberIds(members) == [i \in 1..Len(members) |-> members[i].id]

\* what the iteration of one seed found before deciding: the seed, its source,
\* the number of other sources that supplied a match, the seed and its matches
IterationSeen(source_id, detection, votes, member_ids) ==
    [seed |-> detection.id, source |-> source_id, votes |-> votes, members |-> member_ids,
     merged |-> FALSE, confidence |-> Rat(0, 1), accepted |-> FALSE]

\* lines 530-546: the quorum test, the confidence test of the merged detection,
\* and the bookkeeping of an accepted group
IterationOutcome(st, seen, merged_detection, p) ==
    IF ~QuorumReached(seen.votes, p.required_votes)
    THEN [st EXCEPT !.last = seen]
    ELSE IF ~ConfidenceCleared(merged_detection.confidence, p.confidence)
    THEN [st EXCEPT !.uuid = @ + 1,
                    !.last = [seen EXCEPT !.merged = TRUE, !.confidence = merged_detection.confidence]]
    ELSE [considered |-> st.considered \cup {seen.members[i] : i \in 1..Len(seen.members)},
          consensus |-> Append(st.consensus, merged_detection),
          groups |-> Append(st.groups, seen.members),
          uuid |-> st.uuid + 1,
          last |-> [seen EXCEPT !.merged = TRUE, !.confidence = merged_detection.confidence,
                                !.accepted = TRUE]]

\* lines 532-539: detections_to_merge = [detection] + matches, and merge_detections
MergeSeedWithMatches(st, source_id, detection, members, votes, p) ==
    IterationOutcome(st, IterationSeen(source_id, detection, votes, MemberIds(members)),
                     MergeDetections(members, p.detections_merge_confidence_aggregation,
                                     p.detections_merge_coordinates_aggregation, -(st.uuid + 1)),
                     p)

\* lines 530-535: the matches of the seed, in the order of their sources
SeedWithOverlap(st, source_id, detection, overlap, n_sources, p) ==
    MergeSeedWithMatches(st, source_id, detection,
                         <<detection>> \o MatchedFrom(overlap, 1, n_sources),
                         Cardinality(DOMAIN overlap), p)

\* lines 519-546: the body of the loop for one seed
ConsensusIteration(st, source_id, detection, predictions, p) ==
    SeedWithOverlap(st, source_id, detection,
                    GetDetectionsFromDifferentSourcesWithMaxOverlap(detection, source_id,
                        predictions, p.iou_threshold, p.class_aware, st.considered),
                    Len(predictions), p)

RECURSIVE ConsensusLoop(_, _, _, _)
ConsensusLoop(st, seeds, predictions, p) ==
    IF seeds = <<>> THEN st
    ELSE ConsensusLoop(ConsensusIteration(st, Head(seeds).source, Head(seeds).detection, predictions, p),
                       Tail(seeds), predictions, p)

\* what resolve_batch_consensus returns, or the exception it ends with
ConsensusResult(error, parent_id, verdict, consensus_detections) ==
    [error |-> error, parent_id |-> parent_id, object_present |-> verdict.object_present,
     presence_confidence |-> verdict.presence_confidence,
     consensus_detections |-> consensus_detections]

\* lines 555-561: the returned tuple, or the exception of the presence check
FinishWithVerdict(parent_id, consensus_detections, v) ==
    IF v.error # NoError THEN ConsensusResult(v.error, NoParent, Raised(v.error), <<>>)
    ELSE ConsensusResult(NoError, parent_id, v, consensus_detections)

\* lines 547-561: the presence verdict and the returned tuple
FinishConsensus(parent_id, consensus_detections, p) ==
    FinishWithVerdict(parent_id, consensus_detections,
        CheckObjectsPresenceInConsensusPredictions(consensus_detections, p.class_aware,
            p.presence_confidence_aggregation, p.required_objects))

\* lines 547-561 applied to the state the loop ended in
ResolveAfterLoop(parent_id, st, p) ==
    [result |-> FinishConsensus(parent_id, st.consensus, p), uuid |-> st.uuid]

\* lines 509-546: the parent id check comes first, then the loop over the
\* detections that passed the pre-filter
ResolveFiltered(parent, filtered_predictions, p, uuid0) ==
    IF parent.error # NoError
    THEN [result |-> ConsensusResult(parent.error, NoParent, Raised(parent.error), <<>>), uuid |-> uuid0]
    ELSE ResolveAfterLoop(parent.parent_id,
             ConsensusLoop([InitLoop EXCEPT !.uuid = uuid0],
                           EnumerateDetections(filtered_predictions, NoSource), filtered_predictions, p),
             p)

\* resolve_batch_consensus, start to end; uuid0 is the number of uuid4 values
\* drawn before the call
ResolveBatchConsensus(predictions, p, uuid0) ==
    ResolveFiltered(GetParentIdOfPredictionsFromDifferentSources(predictions),
                    FilterPredictions(predictions, PreFilterConfidence(p.confidence), p.classes_to_consider),
                    p, uuid0)

\* =========================================================================
\* Spec: one run of resolve_batch_consensus, seed by seed
\* =========================================================================

VARIABLES
    \* one run of resolve_batch_consensus
    predictions,    \* the sources' detections for one image, as passed in
    params,         \* the step's resolved parameters
    pc,             \* "idle", "start", "loop", "done"
    parent_id,      \* what get_parent_id_of_predictions_from_different_sources gave
    filtered,       \* predictions after filter_predictions
    cursor,         \* the position of the loop in enumerate_detections(filtered)
    loop,           \* the loop state (see InitLoop)
    result,         \* what resolve_batch_consensus returned or raised
    \* one execution of the DetectionsConsensus step
    all_predictions,    \* the resolved step.predictions, one value per source
    step_params,        \* the step's resolved parameters
    step_pc,            \* "idle", "ready", "done"
    outputs_lookup,     \* step selector -> output
    step_outcome,       \* how the step ended
    \* one call of check_objects_presence_in_consensus_predictions
    presence_input,     \* its arguments
    presence_pc,        \* "idle", "ready", "done"
    presence_verdict,   \* what it returned or raised
    \* one call of merge_detections
    merge_input,        \* its arguments
    merge_pc,           \* "idle", "ready", "done"
    merge_output,       \* the merged detection
    \* one call of calculate_iou, on detections as given or as offset
    iou_a,              \* detection_a
    iou_b,              \* detection_b
    iou_pc,             \* "idle", "ready", "offset", "done", "done-offset"
    iou_uuid,           \* the uuid4 values drawn so far
    iou_value,          \* what calculate_iou returned or raised
    \* one run of a workflow of the other steps, over outputs_lookup
    runtime_parameters, \* input name -> value
    steps,              \* the definitions of the workflow's steps, by name
    executed,           \* the names of the steps executed so far
    next_step,          \* the NextStepReference the last executed step returned
    exec_uuid,          \* the uuid4 values and dicts made so far
    \* one run of a workflow by the Graph Runner
    run_workflow,       \* the workflow: its graph, its inputs, the limit of concurrent steps
    run_status,         \* step name -> "pending", "running", "done", "failed", "pruned"
    run_lookup,         \* the Outputs Lookup of the run: step name -> output
    run_next,           \* the NextStepReference the Condition step returned
    run_failure,        \* the step that failed first
    run_outcome,        \* "idle", "running", "failed", "finished"
    run_result,         \* the results returned
    \* one call of InferServerContainer.get_latest_inferred_images
    latest_input,       \* max, the model ids and the cached requests of each
    latest_pc,          \* "idle", "ready", "done"
    latest_output,      \* the dict returned
    \* calls of ContainerService.discover_containers
    docker_containers,      \* client.containers.list(): the ids of the running containers
    inference_containers,   \* self.inference_containers, as the ids of its entries
    discover_pc,            \* "idle", "ready", "containers", "entries"
    discover_c,             \* the position of the loop over containers
    discover_ic,            \* the position of the loop over self.inference_containers
    discover_calls,         \* how many calls were made
    discover_caller,        \* the method that called discover_containers, and its argument
    discover_result,        \* what the latest call returned
    \* concurrent calls of LockedLoadModelManagerDecorator.add_model
    load_model_id,      \* call -> the model_id it was made with
    load_pc,            \* call -> "start", "loading", "returned", "raised"
    lock_owner,         \* lock name -> the call that holds the lock of that name, or NoCall
    lock_lost           \* the calls whose lock expired while they were loading

consensusVars == <<predictions, params, pc, parent_id, filtered, cursor, loop, result>>
stepVars == <<all_predictions, step_params, step_pc, outputs_lookup, step_outcome>>
presenceVars == <<presence_input, presence_pc, presence_verdict>>
mergeVars == <<merge_input, merge_pc, merge_output>>
iouVars == <<iou_a, iou_b, iou_pc, iou_uuid, iou_value>>
executorVars == <<runtime_parameters, steps, executed, next_step, exec_uuid>>
runnerVars == <<run_workflow, run_status, run_lookup, run_next, run_failure, run_outcome, run_result>>
latestVars == <<latest_input, latest_pc, latest_output>>
discoverVars == <<docker_containers, inference_containers, discover_pc, discover_c, discover_ic, discover_calls,
                  discover_caller, discover_result>>
lockVars == <<load_model_id, load_pc, lock_owner, lock_lost>>
serviceVars == <<latestVars, discoverVars, lockVars>>
unitVars == <<mergeVars, iouVars, executorVars, runnerVars, serviceVars>>
vars == <<consensusVars, stepVars, presenceVars, unitVars>>

ClassA == "a"
ClassB == "b"
ImageOne == "image-1"
ImageTwo == "image-2"

\* class_id of a class name, as a model would report it
ClassIdOf(c) == IF c = ClassA THEN 0 ELSE 1

\* the kinds of detection tried: class, confidence in tenths, box centre x;
\* every box is 4 x 4 with centre y = 0. With iou_threshold 0.3 the boxes at
\* x = 0 and x = 2 overlap enough (IOU 15/35), as do x = 2 and x = 4, while
\* x = 0 and x = 4 do not (IOU 5/45).
DetectionKinds ==
    {[class |-> ClassA, tenths |-> 9, x |-> 0], [class |-> ClassA, tenths |-> 9, x |-> 2],
     [class |-> ClassA, tenths |-> 9, x |-> 4], [class |-> ClassA, tenths |-> 2, x |-> 0],
     [class |-> ClassA, tenths |-> 3, x |-> 2], [class |-> ClassB, tenths |-> 9, x |-> 0],
     [class |-> ClassA, tenths |-> 0, x |-> 0]}

MkDetection(id, kind, parent) ==
    [id |-> id, parent_id |-> parent, class |-> kind.class, class_id |-> ClassIdOf(kind.class),
     confidence |-> Rat(kind.tenths, 10), x |-> kind.x, y |-> 0, width |-> 4, height |-> 4]

\* the detections of source s: those assigned to it, in order
RECURSIVE SourceOf(_, _, _, _)
SourceOf(kinds, asg, s, i) ==
    IF i > Len(kinds) THEN <<>>
    ELSE (IF asg[i] = s THEN <<MkDetection(i, kinds[i], ImageOne)>> ELSE <<>>)
         \o SourceOf(kinds, asg, s, i + 1)

Monotone(asg) == \A i \in 1..(Len(asg) - 1) : asg[i] <= asg[i + 1]
Strict(asg) == \A i \in 1..(Len(asg) - 1) : asg[i] < asg[i + 1]

\* the inputs tried: up to MaxSources sources holding up to MaxDetections
\* detections in all (the dense family), or MaxSources + 1 sources holding at
\* most one detection each (the sparse family)
InputShapes ==
    {sh \in [n : 0..(MaxSources + 1), s : 1..(MaxSources + 1)] :
        sh.s <= MaxSources => sh.n <= MaxDetections}

\* the parameter values the ones tried are varied around
DefaultParams ==
    [required_votes |-> 1,
     class_aware |-> FALSE,
     iou_threshold |-> Rat(3, 10),
     confidence |-> Rat(3, 10),
     classes_to_consider |-> NoClasses,
     required_objects |-> RequiredNone,
     presence_confidence_aggregation |-> ModeMax,
     detections_merge_confidence_aggregation |-> ModeAverage,
     detections_merge_coordinates_aggregation |-> ModeAverage]

\* the parameters tried: every required_votes, class_aware or not, every
\* confidence aggregation; and classes_to_consider given, with the defaults
ParamsTried ==
    {[q EXCEPT !.required_votes = v] :
        v \in 1..MaxVotes,
        q \in {[DefaultParams EXCEPT !.class_aware = ca, !.detections_merge_confidence_aggregation = m] :
                  ca \in BOOLEAN, m \in AggregationMode}
              \cup {[DefaultParams EXCEPT !.classes_to_consider = ClassesGiven({ClassA})]}}

IdleConsensus ==
    /\ predictions = <<>>
    /\ params = DefaultParams
    /\ pc = "idle"
    /\ parent_id = NoParent
    /\ filtered = <<>>
    /\ cursor = 1
    /\ loop = InitLoop
    /\ result = ConsensusResult(NoError, NoParent, Raised(NoError), <<>>)

InitConsensus ==
    /\ \E sh \in InputShapes :
         \E kinds \in [1..sh.n -> DetectionKinds], asg \in [1..sh.n -> 1..sh.s] :
            /\ Monotone(asg)
            /\ sh.s > MaxSources => Strict(asg)
            /\ predictions = [s \in 1..sh.s |-> SourceOf(kinds, asg, s, 1)]
    /\ params \in ParamsTried
    /\ pc = "start"
    /\ parent_id = NoParent
    /\ filtered = <<>>
    /\ cursor = 1
    /\ loop = InitLoop
    /\ result = ConsensusResult(NoError, NoParent, Raised(NoError), <<>>)

\* lines 509-518: the parent id check and the pre-filter
StartConsensus ==
    /\ pc = "start"
    /\ LET parent == GetParentIdOfPredictionsFromDifferentSources(predictions)
       IN  IF parent.error # NoError
           THEN /\ pc' = "done"
                /\ result' = ConsensusResult(parent.error, NoParent, Raised(parent.error), <<>>)
                /\ UNCHANGED <<parent_id, filtered>>
           ELSE /\ pc' = "loop"
                /\ parent_id' = parent.parent_id
                /\ filtered' = FilterPredictions(predictions, PreFilterConfidence(params.confidence),
                                                 params.classes_to_consider)
                /\ UNCHANGED result
    /\ UNCHANGED <<predictions, params, cursor, loop>>
    /\ UNCHANGED <<stepVars, presenceVars, unitVars>>

Seeds == EnumerateDetections(filtered, NoSource)

\* lines 519-546: one turn of the loop
Iterate ==
    /\ pc = "loop"
    /\ cursor <= Len(Seeds)
    /\ loop' = ConsensusIteration(loop, Seeds[cursor].source, Seeds[cursor].detection, filtered, params)
    /\ cursor' = cursor + 1
    /\ UNCHANGED <<predictions, params, pc, parent_id, filtered, result>>
    /\ UNCHANGED <<stepVars, presenceVars, unitVars>>

\* lines 547-561: the loop is over
Finish ==
    /\ pc = "loop"
    /\ cursor > Len(Seeds)
    /\ result' = FinishConsensus(parent_id, loop.consensus, params)
    /\ pc' = "done"
    /\ UNCHANGED <<predictions, params, parent_id, filtered, cursor, loop>>
    /\ UNCHANGED <<stepVars, presenceVars, unitVars>>

\* =========================================================================
\* SpecStep: one execution of run_detections_consensus_step
\* =========================================================================

StepName == "consensus"
StepSelector == "$steps.consensus"
TypeError == "TypeError"

\* a resolved predictions value: a flat list of detections (one image) or a
\* list of such lists (a batch). A batch of one image is passed flat, which is
\* what lines 428-430 rely on.
FlatValue(detections) == [nested |-> FALSE, items |-> detections]
NestedValue(lists) == [nested |-> TRUE, items |-> lists]

\* get_batch_size
GetBatchSize(value) ==
    IF Len(value.items) = 0 \/ ~value.nested THEN 1 ELSE Len(value.items)

\* get_predictions_batch_sizes
GetPredictionsBatchSizes(values) == [i \in 1..Len(values) |-> GetBatchSize(values[i])]

\* all_batch_sizes_equal with <= in place of ==
AllBatchSizesAtMostFirst(batch_sizes) ==
    IF Len(batch_sizes) = 0 THEN TRUE
    ELSE \A i \in 1..Len(batch_sizes) : batch_sizes[i] <= batch_sizes[1]

\* all_batch_sizes_equal
AllBatchSizesEqual(batch_sizes) ==
    IF Len(batch_sizes) = 0 THEN TRUE
    ELSE \A i \in 1..Len(batch_sizes) : batch_sizes[i] = batch_sizes[1]

\* how a step execution ends: no error, or the exception raised
StepOk == [error |-> NoError, reason |-> "", step |-> ""]
StepRaised(e, reason, step) == [error |-> e, reason |-> reason, step |-> step]
ReasonNoSources == "Consensus step requires at least one source of predictions."
ReasonDimensions == "Detected missmatch of input dimensions in step"
ReasonParents == "Missmatch in predictions"

\* e[batch_index] of one source after lines 428-430, as the list of detections
\* resolve_batch_consensus iterates: a flat value indexed in a batch gives a
\* detection, not a list (TypeError once its keys are indexed), and an index
\* past the end raises IndexError
BatchElement(value, batch_index, batch_size) ==
    IF batch_size = 1
    THEN IF value.nested /\ Len(value.items) > 0
         THEN [error |-> TypeError, detections |-> <<>>]
         ELSE [error |-> NoError, detections |-> value.items]
    ELSE IF batch_index > Len(value.items)
    THEN [error |-> IndexError, detections |-> <<>>]
    ELSE IF ~value.nested
    THEN [error |-> TypeError, detections |-> <<>>]
    ELSE [error |-> NoError, detections |-> value.items[batch_index]]

\* lines 448-456: the entry appended to results; images_meta[i] is modelled as i
BatchResult(consensus, batch_index) ==
    [predictions |-> consensus.consensus_detections,
     parent_id |-> consensus.parent_id,
     object_present |-> consensus.object_present,
     presence_confidence |-> consensus.presence_confidence,
     image |-> batch_index]

RECURSIVE BatchLoop(_, _, _, _, _, _)

\* lines 434-457: an exception of resolve_batch_consensus ends the step
BatchAfterConsensus(values, p, batch_index, batch_size, results, r) ==
    IF r.result.error # NoError
    THEN [outcome |-> StepRaised(r.result.error,
                         IF r.result.error = ExecutionGraphError THEN ReasonParents ELSE "", ""),
          results |-> <<>>]
    ELSE BatchLoop(values, p, batch_index + 1, batch_size, r.uuid,
                   Append(results, BatchResult(r.result, batch_index)))

\* the first source whose element could not be taken
FirstBad(elements) ==
    CHOOSE i \in 1..Len(elements) :
        /\ elements[i].error # NoError
        /\ \A j \in 1..(i - 1) : elements[j].error = NoError

\* line 433: batch_predictions = [e[batch_index] for e in all_predictions]
BatchTurn(values, p, batch_index, batch_size, uuid, results, elements) ==
    IF \E i \in 1..Len(elements) : elements[i].error # NoError
    THEN [outcome |-> StepRaised(elements[FirstBad(elements)].error, "", ""), results |-> <<>>]
    ELSE BatchAfterConsensus(values, p, batch_index, batch_size, results,
             ResolveBatchConsensus([i \in 1..Len(elements) |-> elements[i].detections], p, uuid))

\* lines 432-459: the loop over the batch
BatchLoop(values, p, batch_index, batch_size, uuid, results) ==
    IF batch_index > batch_size THEN [outcome |-> StepOk, results |-> results]
    ELSE BatchTurn(values, p, batch_index, batch_size, uuid, results,
             [i \in 1..Len(values) |-> BatchElement(values[i], batch_index, batch_size)])

\* run_detections_consensus_step: the outcome and the results it built, if any
DetectionsConsensusStep(values, p) ==
    IF Len(values) < 1
    THEN [outcome |-> StepRaised(ExecutionGraphError, ReasonNoSources, ""), results |-> <<>>]
    ELSE IF ~AllBatchSizesEqual(GetPredictionsBatchSizes(values))
    THEN [outcome |-> StepRaised(ExecutionGraphError, ReasonDimensions, StepName), results |-> <<>>]
    ELSE BatchLoop(values, p, 1, GetPredictionsBatchSizes(values)[1], 0, <<>>)

\* the keys of the Outputs Lookup: the consensus step's own selector and those
\* of the steps its predictions come from
OwnKey == [step |-> StepName, n |-> 0]
SourceKey(i) == [step |-> "model", n |-> i]

\* lines 460-462: a batch of one is written as its only element
WrittenValue(results) ==
    IF Len(results) = 1 THEN [single |-> TRUE, value |-> <<results[1]>>]
    ELSE [single |-> FALSE, value |-> results]

IdleStep ==
    /\ all_predictions = <<>>
    /\ step_params = DefaultParams
    /\ step_pc = "idle"
    /\ outputs_lookup = <<>>
    /\ step_outcome = StepOk

\* the slots of a step input: one per source for a flat value, one per image
\* for a batch; sizes[i] = 1 stands for a flat value
RECURSIVE SlotsBefore(_, _)
SlotsBefore(sizes, i) == IF i <= 1 THEN 0 ELSE sizes[i - 1] + SlotsBefore(sizes, i - 1)

StepDetectionKind == [class |-> ClassA, tenths |-> 9, x |-> 0]

\* the detections put in one slot, in order
RECURSIVE SlotOf(_, _, _, _)
SlotOf(par, asg, slot, i) ==
    IF i > Len(par) THEN <<>>
    ELSE (IF asg[i] = slot THEN <<MkDetection(i, StepDetectionKind, par[i])>> ELSE <<>>)
         \o SlotOf(par, asg, slot, i + 1)

StepValue(sizes, par, asg, i) ==
    IF sizes[i] = 1 THEN FlatValue(SlotOf(par, asg, SlotsBefore(sizes, i) + 1, 1))
    ELSE NestedValue([e \in 1..sizes[i] |-> SlotOf(par, asg, SlotsBefore(sizes, i) + e, 1)])

\* the step inputs tried: up to MaxSources sources, each flat or a batch of 2 to
\* MaxBatch images, holding up to MaxDetections detections in all, each made
\* against one of two images
InitStep ==
    /\ \E s \in 0..MaxSources, n \in 0..MaxDetections :
         \E sizes \in [1..s -> 1..MaxBatch] :
            \E par \in [1..n -> {ImageOne, ImageTwo}],
               asg \in [1..n -> 1..SlotsBefore(sizes, s + 1)] :
                /\ Monotone(asg)
                /\ all_predictions = [i \in 1..s |-> StepValue(sizes, par, asg, i)]
    /\ step_params \in {[DefaultParams EXCEPT !.required_votes = v, !.class_aware = ca] :
                            v \in 1..MaxVotes, ca \in BOOLEAN}
    /\ step_pc = "ready"
    /\ outputs_lookup = [k \in {SourceKey(i) : i \in 1..Len(all_predictions)} |-> all_predictions[k.n]]
    /\ step_outcome = StepOk

\* lines 460-462: outputs_lookup[step selector] = results, reached only when
\* nothing was raised
LookupAfterStep(lookup, run) ==
    IF run.outcome.error # NoError THEN lookup
    ELSE [k \in DOMAIN lookup \cup {OwnKey} |->
             IF k = OwnKey THEN WrittenValue(run.results) ELSE lookup[k]]

StepEndsWith(run) ==
    /\ step_outcome' = run.outcome
    /\ outputs_lookup' = LookupAfterStep(outputs_lookup, run)

\* run_detections_consensus_step
RunDetectionsConsensusStep ==
    /\ step_pc = "ready"
    /\ StepEndsWith(DetectionsConsensusStep(all_predictions, step_params))
    /\ step_pc' = "done"
    /\ UNCHANGED <<all_predictions, step_params>>
    /\ UNCHANGED <<consensusVars, presenceVars, unitVars>>

\* =========================================================================
\* SpecPresence: one call of check_objects_presence_in_consensus_predictions
\* =========================================================================

IdlePresence ==
    /\ presence_input = <<>>
    /\ presence_pc = "idle"
    /\ presence_verdict = Verdict(FALSE, <<>>)

\* consensus detections tried: either class, confidence 0.3 or 0.9
PresenceKinds ==
    {[class |-> c, tenths |-> t, x |-> 0] : c \in {ClassA, ClassB}, t \in {3, 9}}

\* required_objects tried: None, a count, or a mapping of some classes (none
\* included) to counts of at least 1: the step's entity, which is not among
\* the sources modelled, validates the counts it is given as positive
RequiredTried ==
    {RequiredNone} \cup {RequiredCount(n) : n \in 0..MaxVotes}
    \cup UNION {{RequiredMap(m) : m \in [cs -> 1..MaxVotes]} : cs \in SUBSET {ClassA, ClassB}}

InitPresence ==
    /\ \E n \in 0..MaxDetections : \E kinds \in [1..n -> PresenceKinds] :
         \E ca \in BOOLEAN, m \in AggregationMode, ro \in RequiredTried :
            presence_input = [consensus_detections |-> [i \in 1..n |-> MkDetection(-i, kinds[i], ImageOne)],
                              class_aware |-> ca, aggregation_mode |-> m, required_objects |-> ro]
    /\ presence_pc = "ready"
    /\ presence_verdict = Verdict(FALSE, <<>>)

CheckPresence ==
    /\ presence_pc = "ready"
    /\ presence_verdict' = CheckObjectsPresenceInConsensusPredictions(
            presence_input.consensus_detections, presence_input.class_aware,
            presence_input.aggregation_mode, presence_input.required_objects)
    /\ presence_pc' = "done"
    /\ UNCHANGED presence_input
    /\ UNCHANGED <<consensusVars, stepVars, unitVars>>

\* =========================================================================
\* the other step executors: Crop, Condition, DetectionFilter,
\* DetectionOffset, StaticCrop
\*
\* Conventions:
\*  - a value compared by an operator is tagged with its Python type t: a
\*    number (int or float, an exact rational) in num, a string in str, or a
\*    list of such values in list, the other two fields void;
\*  - a dict handled by deepcopy carries its identity in the field obj: a copy
\*    has the content of the original and an identity of its own;
\*  - a step output is [single |-> TRUE, value |-> <<fields>>] for a dict and
\*    [single |-> FALSE, value |-> <<fields, ...>>] for a list of dicts;
\*  - a decoded image is known by its shape [rows, cols].
\* =========================================================================

PyNum(r) == [t |-> "num", num |-> r, str |-> "", list |-> <<>>]
PyInt(n) == PyNum(Rat(n, 1))
PyStr(s) == [t |-> "str", num |-> Rat(0, 1), str |-> s, list |-> <<>>]
PyList(vs) == [t |-> "list", num |-> Rat(0, 1), str |-> "", list |-> vs]

OperatorEqual == "=="
OperatorNotEqual == "!="
OperatorLowerThan == "<"
OperatorGreaterThan == ">"
OperatorLowerOrEqualThan == "<="
OperatorGreaterOrEqualThan == ">="
OperatorIn == "in"
Operator ==
    {OperatorEqual, OperatorNotEqual, OperatorLowerThan, OperatorGreaterThan,
     OperatorLowerOrEqualThan, OperatorGreaterOrEqualThan, OperatorIn}

Evaluated(b) == [error |-> NoError, value |-> b]
EvaluationRaised(e) == [error |-> e, value |-> FALSE]

\* OPERATORS[operator](a, b) for two numbers, with < taken as <=
CompareNumbersLowerOrEqual(operator, a, b) ==
    IF operator = OperatorLowerThan THEN RatLE(a, b)
    ELSE IF operator = OperatorGreaterThan THEN RatLT(b, a)
    ELSE IF operator = OperatorLowerOrEqualThan THEN RatLE(a, b)
    ELSE RatLE(b, a)

\* OPERATORS[operator](a, b) for two numbers
CompareNumbers(operator, a, b) ==
    IF operator = OperatorLowerThan THEN RatLT(a, b)
    ELSE IF operator = OperatorGreaterThan THEN RatLT(b, a)
    ELSE IF operator = OperatorLowerOrEqualThan THEN RatLE(a, b)
    ELSE RatLE(b, a)

\* a == b for two numbers or two strings; values of different types are unequal
PyEqual(a, b) == a = b

\* OPERATORS[operator](a, b). Python orders numbers with numbers and looks a
\* value up in a list; a number ordered against a string or a list, and `in`
\* with a number on the right, raise TypeError. (Strings are ordered and
\* searched by Python too: no such case is tried.)
ApplyOperator(operator, a, b) ==
    IF operator = OperatorEqual THEN Evaluated(PyEqual(a, b))
    ELSE IF operator = OperatorNotEqual THEN Evaluated(~PyEqual(a, b))
    ELSE IF operator = OperatorIn
    THEN IF b.t = "list" THEN Evaluated(\E i \in 1..Len(b.list) : PyEqual(b.list[i], a))
         ELSE EvaluationRaised(TypeError)
    ELSE IF a.t = "num" /\ b.t = "num" THEN Evaluated(CompareNumbers(operator, a.num, b.num))
    ELSE EvaluationRaised(TypeError)

BinaryOperatorAnd == "and"
BinaryOperatorOr == "or"

\* BINARY_OPERATORS[operator](a, b) for two booleans
ApplyBinaryOperator(operator, a, b) ==
    IF operator = BinaryOperatorAnd THEN a /\ b ELSE a \/ b

\* ---- selectors and their resolution (complier/utils.py and
\* steps_executors/utils.py)

Literal(v) == [kind |-> "literal", value |-> v]
InputSelector(name) == [kind |-> "input", name |-> name]
StepOutputSelector(key, field) == [kind |-> "output", key |-> key, field |-> field]

\* construct_step_selector
ConstructStepSelector(step_name) == [step |-> step_name, n |-> 0]

\* construct_selector_pointing_step_output
ConstructSelectorPointingStepOutput(selector, new_output) ==
    IF selector.kind = "output" THEN [selector EXCEPT !.field = new_output] ELSE selector

SingleOutput(fields) == [single |-> TRUE, value |-> <<fields>>]
BatchOutput(elements) == [single |-> FALSE, value |-> elements]

\* resolve_parameter: a literal as it is, an input by its name, an output field
\* of a dict, or of every element of a list of dicts
ResolveParameter(selector_or_value, parameters, lookup) ==
    IF selector_or_value.kind = "literal" THEN selector_or_value.value
    ELSE IF selector_or_value.kind = "input" THEN parameters[selector_or_value.name]
    ELSE IF lookup[selector_or_value.key].single
    THEN lookup[selector_or_value.key].value[1][selector_or_value.field]
    ELSE [i \in 1..Len(lookup[selector_or_value.key].value) |->
             lookup[selector_or_value.key].value[i][selector_or_value.field]]

\* the resolved predictions of a step: the list of detections of a dict output,
\* the list of the lists of detections of a list output
ResolvePredictions(selector, parameters, lookup) ==
    IF selector.kind = "output" /\ ~lookup[selector.key].single
    THEN NestedValue(ResolveParameter(selector, parameters, lookup))
    ELSE FlatValue(ResolveParameter(selector, parameters, lookup))

\* ---- DetectionFilter

\* e[definition.field_name], tagged with its type
FieldValue(e, field_name) ==
    IF field_name = "confidence" THEN PyNum(e.confidence)
    ELSE IF field_name \in {"class", "parent_id"} THEN PyStr(e[field_name])
    ELSE PyInt(e[field_name])

DetectionFilterDefinition(field_name, operator, reference_value) ==
    [type |-> "DetectionFilterDefinition", field_name |-> field_name, operator |-> operator,
     reference_value |-> reference_value]

CompoundDetectionFilterDefinition(left, operator, right) ==
    [type |-> "CompoundDetectionFilterDefinition", left |-> left, operator |-> operator, right |-> right]

\* the comparison of a field with the operands the other way round
SimpleFilterCallableSwapped(definition, e) ==
    ApplyOperator(definition.operator, definition.reference_value, FieldValue(e, definition.field_name)).value

\* build_filter_callable(definition)(e) for a definition that compares a field
SimpleFilterCallable(definition, e) ==
    ApplyOperator(definition.operator, FieldValue(e, definition.field_name), definition.reference_value).value

\* build_filter_callable(definition)(e): the predicate tree evaluated on e
RECURSIVE BuildFilterCallable(_, _)
BuildFilterCallable(definition, e) ==
    IF definition.type = "CompoundDetectionFilterDefinition"
    THEN ApplyBinaryOperator(definition.operator, BuildFilterCallable(definition.left, e),
                             BuildFilterCallable(definition.right, e))
    ELSE SimpleFilterCallable(definition, e)

\* deepcopy of a dict: the same content in a dict of its own
DeepCopy(value, fresh_obj) == [value EXCEPT !.obj = fresh_obj]

\* [p for p in prediction if filter_callable(p)]
RECURSIVE KeptBy(_, _)
KeptBy(prediction, definition) ==
    IF prediction = <<>> THEN <<>>
    ELSE (IF BuildFilterCallable(definition, Head(prediction)) THEN <<Head(prediction)>> ELSE <<>>)
         \o KeptBy(Tail(prediction), definition)

\* the copies of a list of detections, the i-th made as object fresh + i
CopiesOf(detections, fresh) == [i \in 1..Len(detections) |-> DeepCopy(detections[i], fresh + i)]

ParentIdsOf(detections) == [i \in 1..Len(detections) |-> detections[i].parent_id]

\* how many detections the lists before the e-th hold
RECURSIVE HeldBefore(_, _)
HeldBefore(lists, e) == IF e <= 1 THEN 0 ELSE Len(lists[e - 1]) + HeldBefore(lists, e - 1)

\* zip(result_detections, result_parent_id, images_meta) as a list of dicts
ZipOutput(result_detections, images_meta) ==
    BatchOutput([i \in 1..Min2(Len(result_detections), Len(images_meta)) |->
                    [predictions |-> result_detections[i],
                     parent_id |-> ParentIdsOf(result_detections[i]),
                     image |-> images_meta[i]]])

\* lines 185-197, the nested case: every element filtered and copied
FilteredLists(lists, definition, fresh) ==
    LET kept == [e \in 1..Len(lists) |-> KeptBy(lists[e], definition)]
    IN  [e \in 1..Len(lists) |-> CopiesOf(kept[e], fresh + HeldBefore(kept, e))]

\* run_detection_filter: what is written under the step's selector. A list
\* whose first element is a list is nested.
DetectionFilterOutput(predictions_value, images_meta, definition, fresh) ==
    IF predictions_value.nested /\ Len(predictions_value.items) > 0
    THEN ZipOutput(FilteredLists(predictions_value.items, definition, fresh), images_meta)
    ELSE SingleOutput([predictions |-> CopiesOf(KeptBy(predictions_value.items, definition), fresh),
                       parent_id |-> ParentIdsOf(KeptBy(predictions_value.items, definition)),
                       image |-> images_meta])

\* how many dicts a list of detections, or a list of lists, holds
RECURSIVE HeldIn(_)
HeldIn(lists) == IF lists = <<>> THEN 0 ELSE Len(Head(lists)) + HeldIn(Tail(lists))

\* ---- DetectionOffset

\* offset_detection working on the detection itself, without the deepcopy
OffsetDetectionInPlace(detection, offset_x, offset_y, fresh_id) ==
    [detection EXCEPT !.width = @ + PyRoundDiv(offset_x.num, offset_x.den),
                      !.height = @ + PyRoundDiv(offset_y.num, offset_y.den),
                      !.parent_id = detection.id,
                      !.id = fresh_id]

\* offset_detection reading the id of the copy after it was drawn afresh
OffsetDetectionOwnParent(detection, offset_x, offset_y, fresh_id) ==
    [DeepCopy(detection, fresh_id) EXCEPT
        !.width = @ + PyRoundDiv(offset_x.num, offset_x.den),
        !.height = @ + PyRoundDiv(offset_y.num, offset_y.den),
        !.parent_id = fresh_id,
        !.id = fresh_id]

\* offset_detection; an offset is a number (a rational here), rounded as
\* Python's round() does; fresh_id stands for the uuid4 drawn, and names the
\* copy made
OffsetDetection(detection, offset_x, offset_y, fresh_id) ==
    [DeepCopy(detection, fresh_id) EXCEPT
        !.width = @ + PyRoundDiv(offset_x.num, offset_x.den),
        !.height = @ + PyRoundDiv(offset_y.num, offset_y.den),
        !.parent_id = detection.id,
        !.id = fresh_id]

OffsetAll(detections, offset_x, offset_y, fresh) ==
    [i \in 1..Len(detections) |-> OffsetDetection(detections[i], offset_x, offset_y, fresh + i)]

\* lines 265-270: the parent ids recorded for a nested element are those of
\* the offset detections
ZipOffsetOutput(result_detections, images_meta) ==
    BatchOutput([i \in 1..Min2(Len(result_detections), Len(images_meta)) |->
                    [predictions |-> result_detections[i],
                     parent_id |-> ParentIdsOf(result_detections[i]),
                     image |-> images_meta[i]]])

\* run_detection_offset_step: what is written under the step's selector; for a
\* flat input the parent ids recorded are those of the input detections
DetectionOffsetOutput(detections_value, images_meta, offset_x, offset_y, fresh) ==
    IF detections_value.nested /\ Len(detections_value.items) > 0
    THEN ZipOffsetOutput([e \in 1..Len(detections_value.items) |->
                             OffsetAll(detections_value.items[e], offset_x, offset_y,
                                       fresh + HeldBefore(detections_value.items, e))],
                         images_meta)
    ELSE SingleOutput([predictions |-> OffsetAll(detections_value.items, offset_x, offset_y, fresh),
                       parent_id |-> ParentIdsOf(detections_value.items),
                       image |-> images_meta])

\* ---- Crop and StaticCrop

\* an image as a step receives it: the decoded array (known by its shape) and,
\* for an image that is itself a crop, its origin_coordinates
NoOriginCoordinates == [given |-> FALSE]
OriginCoordinates(center_x, center_y, origin_size) ==
    [given |-> TRUE, center_x |-> center_x, center_y |-> center_y, origin_image_size |-> origin_size]

ImageShape(rows, cols) == [rows |-> rows, cols |-> cols]

\* the images a step works on: one image, or a list of images
OneImage(image) == [is_list |-> FALSE, items |-> <<image>>]
ImageList(images) == [is_list |-> TRUE, items |-> images]

\* get_image: the resolved step.image; a field of a step output that holds
\* images holds a list of them
GetImage(step, parameters, lookup) ==
    IF step.image.kind = "output" THEN ImageList(ResolveParameter(step.image, parameters, lookup))
    ELSE ResolveParameter(step.image, parameters, lookup)

\* load_image: the decoded array of an image
LoadImage(image) == image.value

\* extract_origin_size_from_images, for one image
ExtractOriginSize(input_image, decoded_image) ==
    IF input_image.origin_coordinates.given THEN input_image.origin_coordinates.origin_image_size
    ELSE [height |-> decoded_image.rows, width |-> decoded_image.cols]

\* where a[start:stop] begins and ends on an axis of n entries: a negative
\* index counts from the end, and both are cut to 0..n
SliceIndex(index, n) == Max2(0, Min2(n, IF index < 0 THEN index + n ELSE index))

SliceLength(start, stop, n) == Max2(0, SliceIndex(stop, n) - SliceIndex(start, n))

\* image[y_min:y_max, x_min:x_max]
SliceImage(image, y_min, y_max, x_min, x_max) ==
    ImageShape(SliceLength(y_min, y_max, image.rows), SliceLength(x_min, x_max, image.cols))

NumpyObject == "numpy_object"

\* the crop of one detection, placed by the corner of its box
CropOfBoxAtCorner(image, box, detection, origin_size) ==
    [type |-> NumpyObject,
     value |-> SliceImage(image, box.y_min, box.y_max, box.x_min, box.x_max),
     parent_id |-> detection.id,
     origin_coordinates |-> OriginCoordinates(box.x_min, box.y_min, origin_size)]

\* crop_image, lines 124-137: the crop of one detection
CropOfBox(image, box, detection, origin_size) ==
    [type |-> NumpyObject,
     value |-> SliceImage(image, box.y_min, box.y_max, box.x_min, box.x_max),
     parent_id |-> detection.id,
     origin_coordinates |-> OriginCoordinates(detection.x, detection.y, origin_size)]

\* crop_image
CropImage(image, detections, origin_size) ==
    [i \in 1..Len(detections) |->
        CropOfBox(image, DetectionToXyxy(detections[i]), detections[i], origin_size)]

\* itertools.chain.from_iterable over zip(decoded_images, detections, origin sizes)
RECURSIVE ChainCrops(_, _, _)
ChainCrops(images, detections, i) ==
    IF i > Min2(Len(images), Len(detections)) THEN <<>>
    ELSE CropImage(LoadImage(images[i]), detections[i], ExtractOriginSize(images[i], LoadImage(images[i])))
         \o ChainCrops(images, detections, i + 1)

CropsOutput(crops) ==
    SingleOutput([crops |-> crops, parent_id |-> [i \in 1..Len(crops) |-> crops[i].parent_id]])

\* run_crop_step: what is written under the step's selector; lines 92-94 wrap
\* one image and its detections in lists
CropStepOutput(image, detections_value) ==
    CropsOutput(ChainCrops(image.items,
                           IF image.is_list THEN detections_value.items ELSE <<detections_value.items>>, 1))

AbsoluteStaticCrop == "AbsoluteStaticCrop"
RelativeStaticCrop == "RelativeStaticCrop"

RatTimes(n, r) == Rat(n * r.num, r.den)
RoundRat(r) == PyRoundDiv(r.num, r.den)
\* round(center - extent / 2)
RoundCornerOf(center, extent) == RoundRat(RatAdd(center, Rat(-extent.num, 2 * extent.den)))

\* take_static_crop, lines 384-398, for the centre and extent in pixels
StaticCropOfBox(image, crop, x_center, y_center, width, height, origin_size) ==
    [type |-> NumpyObject,
     value |-> SliceImage(image,
                          RoundCornerOf(y_center, height),
                          RoundRat(RatAdd(Rat(RoundCornerOf(y_center, height), 1), height)),
                          RoundCornerOf(x_center, width),
                          RoundRat(RatAdd(Rat(RoundCornerOf(x_center, width), 1), width))),
     parent_id |-> ConstructStepSelector(crop.name),
     origin_coordinates |-> OriginCoordinates(x_center, y_center, origin_size)]

\* take_static_crop: a relative crop is scaled by the image's shape and rounded
TakeStaticCrop(image, crop, origin_size) ==
    IF crop.type = RelativeStaticCrop
    THEN StaticCropOfBox(image, crop,
                         Rat(RoundRat(RatTimes(image.cols, crop.x_center)), 1),
                         Rat(RoundRat(RatTimes(image.rows, crop.y_center)), 1),
                         Rat(RoundRat(RatTimes(image.cols, crop.width)), 1),
                         Rat(RoundRat(RatTimes(image.rows, crop.height)), 1),
                         origin_size)
    ELSE StaticCropOfBox(image, crop, crop.x_center, crop.y_center, crop.width, crop.height, origin_size)

\* run_static_crop_step: what is written under the step's selector
StaticCropStepOutput(image, crop) ==
    CropsOutput([i \in 1..Len(image.items) |->
                    TakeStaticCrop(LoadImage(image.items[i]), crop,
                                   ExtractOriginSize(image.items[i], LoadImage(image.items[i])))])

\* ---- Condition

\* run_condition_step: the evaluation of the operator on the resolved values
ConditionEvaluation(step, parameters, lookup) ==
    ApplyOperator(step.operator, ResolveParameter(step.left, parameters, lookup),
                  ResolveParameter(step.right, parameters, lookup))

\* run_condition_step: the NextStepReference returned
ConditionNextStep(step, parameters, lookup) ==
    IF ConditionEvaluation(step, parameters, lookup).value THEN step.step_if_true ELSE step.step_if_false

\* =========================================================================
\* SpecMerge: one call of merge_detections
\* =========================================================================

\* most members of one merged group
MaxMembers == 3

IdleMerge ==
    /\ merge_input = <<>>
    /\ merge_pc = "idle"
    /\ merge_output = <<>>

\* the members tried. The boxes of the first three kinds have the same area
\* (100) and differ; the means of their fields fall on integers (x of 0 and 4)
\* and half-way between two (x of 0 and 1, width of 10 and 5). Two kinds share
\* each confidence and differ in class; one kind of class "a" carries another
\* class_id than the others of its class.
MergeKinds ==
    {[class |-> ClassA, class_id |-> 0, tenths |-> 9, x |-> 0, y |-> 0, width |-> 10, height |-> 10],
     [class |-> ClassB, class_id |-> 1, tenths |-> 9, x |-> 4, y |-> 0, width |-> 10, height |-> 10],
     [class |-> ClassA, class_id |-> 7, tenths |-> 3, x |-> 1, y |-> 3, width |-> 5, height |-> 20],
     [class |-> ClassB, class_id |-> 1, tenths |-> 3, x |-> 1, y |-> 0, width |-> 4, height |-> 4],
     [class |-> ClassA, class_id |-> 0, tenths |-> 5, x |-> 3, y |-> 1, width |-> 4, height |-> 4],
     [class |-> ClassB, class_id |-> 1, tenths |-> 5, x |-> 4, y |-> 0, width |-> 12, height |-> 9]}

MergeMember(id, kind) ==
    [id |-> id, parent_id |-> ImageOne, class |-> kind.class, class_id |-> kind.class_id,
     confidence |-> Rat(kind.tenths, 10), x |-> kind.x, y |-> kind.y,
     width |-> kind.width, height |-> kind.height]

\* merge_detections is called with the seed and its matches: at least one member
InitMerge ==
    /\ \E n \in 1..MaxMembers : \E kinds \in [1..n -> MergeKinds] :
         \E cm \in AggregationMode, bm \in AggregationMode :
            merge_input = [detections |-> [i \in 1..n |-> MergeMember(i, kinds[i])],
                           confidence_aggregation_mode |-> cm,
                           boxes_aggregation_mode |-> bm]
    /\ merge_pc = "ready"
    /\ merge_output = <<>>

Merge ==
    /\ merge_pc = "ready"
    /\ merge_output' = MergeDetections(merge_input.detections, merge_input.confidence_aggregation_mode,
                                       merge_input.boxes_aggregation_mode, -1)
    /\ merge_pc' = "done"
    /\ UNCHANGED merge_input
    /\ UNCHANGED <<consensusVars, stepVars, presenceVars, iouVars, executorVars, runnerVars, serviceVars>>

\* =========================================================================
\* SpecIou: one call of calculate_iou, on two detections as a model gives them
\* or as the DetectionOffset step leaves them
\* =========================================================================

\* largest centre coordinate and largest extent of the boxes tried
MaxCoordinate == 2
MaxExtent == 2

ZeroDivisionError == "ZeroDivisionError"

\* calculate_iou, line 708: the divisor
IouDivisor(box_a, box_b) ==
    BboxArea(box_a) + BboxArea(box_b) - IntersectionArea(box_a, box_b)

\* calculate_iou when its division may fail: the value, or ZeroDivisionError
IouOutcomeOfBoxes(box_a, box_b) ==
    IF IouDivisor(box_a, box_b) = 0 THEN [error |-> ZeroDivisionError, value |-> Rat(0, 1)]
    ELSE [error |-> NoError, value |-> BoxesIou(box_a, box_b)]

IouOutcome(detection_a, detection_b) ==
    IouOutcomeOfBoxes(DetectionToXyxy(detection_a), DetectionToXyxy(detection_b))

IdleIou ==
    /\ iou_a = <<>>
    /\ iou_b = <<>>
    /\ iou_pc = "idle"
    /\ iou_uuid = 0
    /\ iou_value = [error |-> NoError, value |-> Rat(0, 1)]

\* a detection with the given box, as a model step emits it
BoxDetection(id, x, y, width, height) ==
    [id |-> id, obj |-> id, parent_id |-> ImageOne, class |-> ClassA, class_id |-> ClassIdOf(ClassA),
     confidence |-> Rat(9, 10), x |-> x, y |-> y, width |-> width, height |-> height]

\* the offsets tried: whole and half numbers, growing and shrinking
OffsetsTried == {Rat(-5, 2), Rat(-1, 1), Rat(1, 2), Rat(3, 2)}

\* the pairs tried: integer centres, non-negative integer extents; the first
\* box is centred on the row 0, the second is anywhere
InitIou ==
    /\ \E x \in 0..MaxCoordinate, w \in 0..MaxExtent, h \in 0..MaxExtent :
         iou_a = BoxDetection(1, x, 0, w, h)
    /\ \E x \in 0..MaxCoordinate, y \in 0..MaxCoordinate, w \in 0..MaxExtent, h \in 0..MaxExtent :
         iou_b = BoxDetection(2, x, y, w, h)
    /\ iou_pc = "ready"
    /\ iou_uuid = 0
    /\ iou_value = [error |-> NoError, value |-> Rat(0, 1)]

\* both detections pass through a DetectionOffset step
OffsetBoth ==
    /\ iou_pc = "ready"
    /\ \E offset_x \in OffsetsTried, offset_y \in OffsetsTried :
         /\ iou_a' = OffsetDetection(iou_a, offset_x, offset_y, -(iou_uuid + 1))
         /\ iou_b' = OffsetDetection(iou_b, offset_x, offset_y, -(iou_uuid + 2))
    /\ iou_uuid' = iou_uuid + 2
    /\ iou_pc' = "offset"
    /\ UNCHANGED iou_value
    /\ UNCHANGED <<consensusVars, stepVars, presenceVars, mergeVars, executorVars, runnerVars, serviceVars>>

Iou ==
    /\ iou_pc \in {"ready", "offset"}
    /\ iou_value' = IouOutcome(iou_a, iou_b)
    /\ iou_pc' = IF iou_pc = "ready" THEN "done" ELSE "done-offset"
    /\ UNCHANGED <<iou_a, iou_b, iou_uuid>>
    /\ UNCHANGED <<consensusVars, stepVars, presenceVars, mergeVars, executorVars, runnerVars, serviceVars>>


\* =========================================================================
\* SpecWorkflow: one run of a workflow of Crop, StaticCrop, Condition,
\* DetectionFilter, DetectionOffset (twice, the second on the output of the
\* first) and DetectionsConsensus steps over the output of a model step, each
\* step executed at most once, in any order its inputs allow.
\* SpecCondition: one execution of a Condition step.
\* =========================================================================

\* most images in the batch handed to the workflow, and most detections the
\* model step found in them
MaxImages == 2
MaxInputDetections == 2

NoStep == "None"

IdleExecutors ==
    /\ runtime_parameters = <<>>
    /\ steps = <<>>
    /\ executed = {}
    /\ next_step = NoStep
    /\ exec_uuid = 0

ModelKey == SourceKey(1)

\* the detections the model step found: class, confidence in tenths, box. The
\* third has odd sides, so that its corners fall half-way between pixels, and
\* reaches over the upper edge of the image.
WorkflowKinds ==
    {[class |-> ClassA, tenths |-> 9, x |-> 3, y |-> 3, width |-> 4, height |-> 2],
     [class |-> ClassB, tenths |-> 2, x |-> 2, y |-> 2, width |-> 2, height |-> 2],
     [class |-> ClassA, tenths |-> 5, x |-> 5, y |-> 1, width |-> 3, height |-> 5]}

ImageName(i) == IF i = 1 THEN ImageOne ELSE ImageTwo

WorkflowDetection(id, kind, parent) ==
    [id |-> id, obj |-> id, parent_id |-> parent, class |-> kind.class, class_id |-> ClassIdOf(kind.class),
     confidence |-> Rat(kind.tenths, 10), x |-> kind.x, y |-> kind.y,
     width |-> kind.width, height |-> kind.height]

\* the detections found in image e, in order
RECURSIVE FoundIn(_, _, _, _)
FoundIn(kinds, asg, e, i) ==
    IF i > Len(kinds) THEN <<>>
    ELSE (IF asg[i] = e THEN <<WorkflowDetection(i, kinds[i], ImageName(e))>> ELSE <<>>)
         \o FoundIn(kinds, asg, e, i + 1)

\* an input image: as decoded (6 rows, 8 columns), or a crop of 4 x 4 pixels
\* taken around (4, 3) from such an image
InputImage(i, is_crop) ==
    [type |-> NumpyObject,
     value |-> IF is_crop THEN ImageShape(4, 4) ELSE ImageShape(6, 8),
     parent_id |-> ImageName(i),
     origin_coordinates |-> IF is_crop THEN OriginCoordinates(4, 3, [height |-> 6, width |-> 8])
                            ELSE NoOriginCoordinates]

\* what the model step left in the Outputs Lookup: a dict for one image, a
\* list of dicts for a batch
ModelOutput(n_images, kinds, asg) ==
    IF n_images = 1
    THEN SingleOutput([predictions |-> FoundIn(kinds, asg, 1, 1), parent_id |-> ImageName(1), image |-> 1])
    ELSE BatchOutput([e \in 1..n_images |->
                         [predictions |-> FoundIn(kinds, asg, e, 1), parent_id |-> ImageName(e), image |-> e]])

InputImages(n_images, is_crop) ==
    IF n_images = 1 THEN OneImage(InputImage(1, is_crop))
    ELSE ImageList([e \in 1..n_images |-> InputImage(e, is_crop)])

ModelPredictions == StepOutputSelector(ModelKey, "predictions")

\* the Crop step cuts the input images around the detections of the offset step
CropStep ==
    [type |-> "Crop", name |-> "crop", image |-> InputSelector("image"),
     detections |-> StepOutputSelector(ConstructStepSelector("offset"), "predictions")]

StaticCropStep(type, x_center, y_center, width, height) ==
    [type |-> type, name |-> "static_crop", image |-> InputSelector("image"),
     x_center |-> x_center, y_center |-> y_center, width |-> width, height |-> height]

ConditionStep(left, operator, right) ==
    [type |-> "Condition", name |-> "condition", left |-> left, operator |-> operator, right |-> right,
     step_if_true |-> ConstructStepSelector("crop"), step_if_false |-> ConstructStepSelector("static_crop")]

DetectionFilterStep(filter_definition) ==
    [type |-> "DetectionFilter", name |-> "filter",
     predictions |-> StepOutputSelector(ConstructStepSelector("offset"), "predictions"),
     filter_definition |-> filter_definition]

DetectionOffsetStep(name, selector, offset_x, offset_y) ==
    [type |-> "DetectionOffset", name |-> name, predictions |-> selector,
     offset_x |-> Literal(offset_x), offset_y |-> Literal(offset_y)]

Workflow(crop, condition, filter_definition, offset_x, offset_y, images_are_crops) ==
    [crop |-> CropStep,
     static_crop |-> crop,
     condition |-> condition,
     filter |-> DetectionFilterStep(filter_definition),
     offset |-> DetectionOffsetStep("offset", ModelPredictions, offset_x, offset_y),
     offset_again |-> DetectionOffsetStep("offset_again",
                          StepOutputSelector(ConstructStepSelector("offset"), "predictions"), offset_x, offset_y),
     images_are_crops |-> images_are_crops]

\* the workflows tried: an absolute and a relative static crop; a filter on
\* one field and compound filters; offsets that grow and that shrink, whole and
\* half-way between two integers
WorkflowsTried ==
    {Workflow(StaticCropStep(AbsoluteStaticCrop, Rat(4, 1), Rat(3, 1), Rat(4, 1), Rat(2, 1)),
              ConditionStep(InputSelector("threshold"), OperatorGreaterOrEqualThan, Literal(PyInt(1))),
              DetectionFilterDefinition("confidence", OperatorGreaterThan, PyNum(Rat(3, 10))),
              Rat(2, 1), Rat(1, 2), FALSE),
     Workflow(StaticCropStep(RelativeStaticCrop, Rat(1, 2), Rat(1, 2), Rat(1, 2), Rat(1, 3)),
              ConditionStep(Literal(PyStr(ClassA)), OperatorIn, Literal(PyList(<<PyStr(ClassB)>>))),
              CompoundDetectionFilterDefinition(
                  DetectionFilterDefinition("class", OperatorEqual, PyStr(ClassA)), BinaryOperatorAnd,
                  DetectionFilterDefinition("width", OperatorGreaterOrEqualThan, PyInt(3))),
              Rat(-5, 2), Rat(3, 2), TRUE),
     Workflow(StaticCropStep(AbsoluteStaticCrop, Rat(3, 1), Rat(3, 1), Rat(3, 1), Rat(5, 1)),
              ConditionStep(InputSelector("threshold"), OperatorNotEqual, Literal(PyInt(1))),
              CompoundDetectionFilterDefinition(
                  DetectionFilterDefinition("class", OperatorIn, PyList(<<PyStr(ClassB)>>)), BinaryOperatorOr,
                  DetectionFilterDefinition("x", OperatorLowerThan, PyInt(4))),
              Rat(-1, 1), Rat(0, 1), FALSE)}

\* the operands of the conditions tried
LeftOperands == {InputSelector("threshold"), Literal(PyInt(1)), Literal(PyStr(ClassA))}
RightOperands ==
    {Literal(PyInt(1)), Literal(PyInt(2)), Literal(PyStr(ClassA)), Literal(PyList(<<PyInt(1), PyStr(ClassA)>>))}

\* the type of an operand once resolved; the input "threshold" is a number
OperandType(operand) == IF operand.kind = "input" THEN "num" ELSE operand.value.t

\* the operator is defined for the operands: any two values are compared for
\* equality, numbers are ordered, a value is looked up in a list
Comparable(operator, left, right) ==
    IF operator \in {OperatorEqual, OperatorNotEqual} THEN TRUE
    ELSE IF operator = OperatorIn THEN OperandType(right) = "list"
    ELSE OperandType(left) = "num" /\ OperandType(right) = "num"

\* the workflows whose Condition step is tried with every operator, on every
\* pair of operands it is defined for
ConditionsTried ==
    {[w EXCEPT !.condition = ConditionStep(c.left, c.operator, c.right)] :
        w \in WorkflowsTried,
        c \in {c \in [operator : Operator, left : LeftOperands, right : RightOperands] :
                   Comparable(c.operator, c.left, c.right)}}

\* the state a run starts in: the images, the output of the model step, the
\* resolved input of the consensus step, and the workflow
InitExecutors(workflows, thresholds, max_images, max_detections) ==
    /\ steps \in workflows
    /\ \E n_images \in 1..max_images, n \in 0..max_detections :
         \E kinds \in [1..n -> WorkflowKinds], asg \in [1..n -> 1..n_images] :
            /\ Monotone(asg)
            /\ outputs_lookup = [k \in {ModelKey} |-> ModelOutput(n_images, kinds, asg)]
            /\ \E threshold \in thresholds :
                 runtime_parameters = [image |-> InputImages(n_images, steps.images_are_crops),
                                       threshold |-> PyInt(threshold)]
            /\ exec_uuid = n
    /\ all_predictions = <<ResolvePredictions(ModelPredictions, runtime_parameters, outputs_lookup)>>
    /\ step_params = DefaultParams
    /\ step_pc = "ready"
    /\ step_outcome = StepOk
    /\ executed = {}
    /\ next_step = NoStep

\* a step can run once, when the steps whose outputs it reads have written them
CanRun(name, reads) ==
    /\ name \notin executed
    /\ \A i \in 1..Len(reads) : reads[i].kind = "output" => reads[i].key \in DOMAIN outputs_lookup

\* the assignment made under the step's selector and under that of the model
\* step as well
WrittenOverModelToo(lookup, name, output) ==
    [k \in DOMAIN lookup \cup {ConstructStepSelector(name)} |->
        IF k \in {ConstructStepSelector(name), ModelKey} THEN output ELSE lookup[k]]

\* outputs_lookup[construct_step_selector(step.name)] = output
Written(lookup, name, output) ==
    [k \in DOMAIN lookup \cup {ConstructStepSelector(name)} |->
        IF k = ConstructStepSelector(name) THEN output ELSE lookup[k]]

Ends(name, reference) ==
    /\ executed' = executed \cup {name}
    /\ next_step' = reference
    /\ UNCHANGED <<runtime_parameters, steps>>
    /\ UNCHANGED <<all_predictions, step_params, step_pc, step_outcome>>
    /\ UNCHANGED <<consensusVars, presenceVars, mergeVars, iouVars, runnerVars, serviceVars>>

\* run_crop_step
RunCropStep ==
    /\ CanRun("crop", <<steps.crop.image, steps.crop.detections>>)
    /\ outputs_lookup' = Written(outputs_lookup, steps.crop.name,
            CropStepOutput(GetImage(steps.crop, runtime_parameters, outputs_lookup),
                           ResolvePredictions(steps.crop.detections, runtime_parameters, outputs_lookup)))
    /\ UNCHANGED exec_uuid
    /\ Ends("crop", NoStep)

\* run_static_crop_step
RunStaticCropStep ==
    /\ CanRun("static_crop", <<steps.static_crop.image>>)
    /\ outputs_lookup' = Written(outputs_lookup, steps.static_crop.name,
            StaticCropStepOutput(GetImage(steps.static_crop, runtime_parameters, outputs_lookup),
                                 steps.static_crop))
    /\ UNCHANGED exec_uuid
    /\ Ends("static_crop", NoStep)

\* run_condition_step
RunConditionStep ==
    /\ CanRun("condition", <<steps.condition.left, steps.condition.right>>)
    /\ UNCHANGED <<outputs_lookup, exec_uuid>>
    /\ Ends("condition", ConditionNextStep(steps.condition, runtime_parameters, outputs_lookup))

\* the resolved "image" output of the step whose predictions are read
ImagesMeta(selector, parameters, lookup) ==
    ResolveParameter(ConstructSelectorPointingStepOutput(selector, "image"), parameters, lookup)

\* how many detections a resolved predictions value holds
DetectionsHeld(value) == IF value.nested THEN HeldIn(value.items) ELSE Len(value.items)

\* how many detections of a resolved predictions value the filter keeps
KeptCount(value, definition) ==
    IF value.nested THEN HeldIn([e \in 1..Len(value.items) |-> KeptBy(value.items[e], definition)])
    ELSE Len(KeptBy(value.items, definition))

\* run_detection_filter
RunDetectionFilter ==
    /\ CanRun("filter", <<steps.filter.predictions>>)
    /\ outputs_lookup' = Written(outputs_lookup, steps.filter.name,
            DetectionFilterOutput(ResolvePredictions(steps.filter.predictions, runtime_parameters, outputs_lookup),
                                  ImagesMeta(steps.filter.predictions, runtime_parameters, outputs_lookup),
                                  steps.filter.filter_definition, exec_uuid))
    /\ exec_uuid' = exec_uuid + KeptCount(ResolvePredictions(steps.filter.predictions, runtime_parameters, outputs_lookup),
                                           steps.filter.filter_definition)
    /\ Ends("filter", NoStep)

\* run_detection_offset_step of the step of the given name
OffsetStepRuns(step) ==
    /\ CanRun(step.name, <<step.predictions>>)
    /\ outputs_lookup' = Written(outputs_lookup, step.name,
            DetectionOffsetOutput(ResolvePredictions(step.predictions, runtime_parameters, outputs_lookup),
                                  ImagesMeta(step.predictions, runtime_parameters, outputs_lookup),
                                  ResolveParameter(step.offset_x, runtime_parameters, outputs_lookup),
                                  ResolveParameter(step.offset_y, runtime_parameters, outputs_lookup),
                                  exec_uuid))
    /\ exec_uuid' = exec_uuid + DetectionsHeld(ResolvePredictions(step.predictions, runtime_parameters, outputs_lookup))
    /\ Ends(step.name, NoStep)

RunDetectionOffsetStep == OffsetStepRuns(steps.offset)

RunDetectionOffsetStepAgain == OffsetStepRuns(steps.offset_again)

IdleRunner ==
    /\ run_workflow = <<>>
    /\ run_status = <<>>
    /\ run_lookup = <<>>
    /\ run_next = NoStep
    /\ run_failure = NoStep
    /\ run_outcome = "idle"
    /\ run_result = <<>>

IdleLatest == latest_input = <<>> /\ latest_pc = "idle" /\ latest_output = <<>>

IdleDiscover ==
    /\ docker_containers = <<>>
    /\ inference_containers = <<>>
    /\ discover_pc = "idle"
    /\ discover_c = 0
    /\ discover_ic = 0
    /\ discover_calls = 0
    /\ discover_caller = [method |-> "none", id |-> 0]
    /\ discover_result = <<>>

IdleLocks == load_model_id = <<>> /\ load_pc = <<>> /\ lock_owner = <<>> /\ lock_lost = {}

IdleServices == IdleLatest /\ IdleDiscover /\ IdleLocks

IdleUnits == IdleMerge /\ IdleIou /\ IdleExecutors /\ IdleRunner /\ IdleServices

\* =========================================================================
\* the specifications
\* =========================================================================

Init == InitConsensus /\ IdleStep /\ IdlePresence /\ IdleUnits

Next == StartConsensus \/ Iterate \/ Finish

Spec == Init /\ [][Next]_vars

InitStepSpec == IdleConsensus /\ InitStep /\ IdlePresence /\ IdleUnits

NextStep == RunDetectionsConsensusStep

SpecStep == InitStepSpec /\ [][NextStep]_vars

InitPresenceSpec == IdleConsensus /\ IdleStep /\ InitPresence /\ IdleUnits

NextPresence == CheckPresence

SpecPresence == InitPresenceSpec /\ [][NextPresence]_vars

InitMergeSpec ==
    /\ IdleConsensus /\ IdleStep /\ IdlePresence /\ InitMerge /\ IdleIou /\ IdleExecutors
    /\ IdleRunner /\ IdleServices

NextMerge == Merge

SpecMerge == InitMergeSpec /\ [][NextMerge]_vars

InitIouSpec ==
    /\ IdleConsensus /\ IdleStep /\ IdlePresence /\ IdleMerge /\ InitIou /\ IdleExecutors
    /\ IdleRunner /\ IdleServices

NextIou == OffsetBoth \/ Iou

SpecIou == InitIouSpec /\ [][NextIou]_vars

InitWorkflowSpec ==
    /\ IdleConsensus /\ IdlePresence /\ IdleMerge /\ IdleIou /\ IdleRunner /\ IdleServices
    /\ InitExecutors(WorkflowsTried, {1}, MaxImages, MaxInputDetections)

NextWorkflow ==
    \/ RunCropStep
    \/ RunStaticCropStep
    \/ RunConditionStep
    \/ RunDetectionFilter
    \/ RunDetectionOffsetStep
    \/ RunDetectionOffsetStepAgain
    \/ RunDetectionsConsensusStep

SpecWorkflow == InitWorkflowSpec /\ [][NextWorkflow]_vars

InitConditionSpec ==
    /\ IdleConsensus /\ IdlePresence /\ IdleMerge /\ IdleIou /\ IdleRunner /\ IdleServices
    /\ InitExecutors(ConditionsTried, {1, 2}, 1, 1)

NextCondition == RunConditionStep

SpecCondition == InitConditionSpec /\ [][NextCondition]_vars

\* =========================================================================
\* properties
\* =========================================================================

\* the detections held by the sources of one run
AllDetections(preds) ==
    UNION {{preds[s][i] : i \in 1..Len(preds[s])} : s \in 1..Len(preds)}

\* the source that holds the detection of a given id
SourceHolding(preds, id) ==
    CHOOSE s \in 1..Len(preds) : \E i \in 1..Len(preds[s]) : preds[s][i].id = id

\* the ids merged into one accepted group
GroupIds(group) == {group[k] : k \in 1..Len(group)}

\* other_detection may be matched with a seed: not consumed, of the seed's
\* class when class-aware, overlapping it by more than iou_threshold
Agrees(detection, other_detection, considered, p) ==
    /\ other_detection.id \notin considered
    /\ p.class_aware => detection.class = other_detection.class
    /\ RatLT(p.iou_threshold, CalculateIou(detection, other_detection))

\* source s, other than the seed's, supplies a match for the seed
Corroborates(seed, preds, considered, p, s) ==
    /\ s # seed.source
    /\ \E i \in 1..Len(preds[s]) : Agrees(seed.detection, preds[s][i], considered, p)

\* the sources that supply a match for the seed
CorroboratingSources(seed, preds, considered, p) ==
    {s \in 1..Len(preds) : Corroborates(seed, preds, considered, p, s)}

\* the best match of one source: the first of those of greatest IOU with the seed
BestMatch(seed, detections, considered, p) ==
    detections[CHOOSE i \in 1..Len(detections) :
        /\ Agrees(seed.detection, detections[i], considered, p)
        /\ \A j \in 1..Len(detections) :
              Agrees(seed.detection, detections[j], considered, p)
                  => RatLE(CalculateIou(seed.detection, detections[j]),
                           CalculateIou(seed.detection, detections[i]))
        /\ \A j \in 1..(i - 1) :
              Agrees(seed.detection, detections[j], considered, p)
                  => RatLT(CalculateIou(seed.detection, detections[j]),
                           CalculateIou(seed.detection, detections[i]))]

\* the best matches of the corroborating sources, in the order of the sources
RECURSIVE ExpectedMatches(_, _, _, _, _)
ExpectedMatches(seed, preds, considered, p, s) ==
    IF s > Len(preds) THEN <<>>
    ELSE (IF Corroborates(seed, preds, considered, p, s)
          THEN <<BestMatch(seed, preds[s], considered, p)>> ELSE <<>>)
         \o ExpectedMatches(seed, preds, considered, p, s + 1)

\* what a seed is merged with, and the confidence of the merge
ExpectedGroup(seed, preds, considered, p) ==
    <<seed.detection>> \o ExpectedMatches(seed, preds, considered, p, 1)

\* a group is accepted: it holds the seed and a match from at least
\* required_votes - 1 other sources, and its merged confidence is at least the
\* confidence threshold
GroupAccepted(group, p) ==
    /\ Len(group) - 1 >= p.required_votes - 1
    /\ RatLE(p.confidence, AggregateConfidence(group, p.detections_merge_confidence_aggregation))

\* what the iteration of a seed, whose group is given, does to the loop state
IterationAsExpected(group, before, after, p) ==
    IF GroupAccepted(group, p)
    THEN /\ Len(after.consensus) = Len(before.consensus) + 1
         /\ SubSeq(after.consensus, 1, Len(before.consensus)) = before.consensus
         /\ after.consensus[Len(after.consensus)].confidence
                = AggregateConfidence(group, p.detections_merge_confidence_aggregation)
         /\ after.considered = before.considered \cup {group[k].id : k \in 1..Len(group)}
    ELSE /\ after.consensus = before.consensus
         /\ after.considered = before.considered

\* C1: each source detection is a member of at most one accepted consensus
\* group (a consumed detection is neither the seed nor a match of a later group).
C1_AtMostOneGroup ==
    \A i \in 1..Len(loop.groups) : \A j \in 1..Len(loop.groups) :
        i # j => GroupIds(loop.groups[i]) \cap GroupIds(loop.groups[j]) = {}

\* C2: the iteration of a seed appends one consensus detection, of the merged
\* confidence, and marks the seed and its best matches consumed if and only if
\* at least required_votes - 1 other sources supply a match and the merged
\* confidence is at least the confidence threshold; otherwise it appends
\* nothing and marks nothing consumed.
C2_SeedAcceptedIffQuorumAndConfidence ==
    [][(pc = "loop" /\ cursor' = cursor + 1) =>
        IterationAsExpected(ExpectedGroup(Seeds[cursor], filtered, loop.considered, params),
                            loop, loop', params)]_vars

\* a run in which one seed was accepted and the latest seed, merged with its
\* matches, fell short of the confidence threshold
C2_Witness ==
    /\ pc = "loop"
    /\ Len(loop.consensus) >= 1
    /\ loop.last.merged
    /\ ~loop.last.accepted

\* C3: the pre-filter leaves no detection whose confidence is not strictly
\* greater than the confidence threshold (nor, when classes_to_consider is
\* given, one of another class), so no such detection is a seed or a member of
\* a consensus group.
C3_NoLowConfidenceSeedOrMember ==
    /\ pc = "loop" =>
          \A d \in AllDetections(filtered) :
              /\ RatLT(params.confidence, d.confidence)
              /\ params.classes_to_consider.given => d.class \in params.classes_to_consider.classes
    /\ \A i \in 1..Len(loop.groups) : \A d \in AllDetections(predictions) :
          d.id \in GroupIds(loop.groups[i]) => RatLT(params.confidence, d.confidence)

\* the sources agreeing on a detection: its own and those holding a detection
\* that overlaps it by more than iou_threshold
AgreeingSources(d, preds, p) ==
    {SourceHolding(preds, d.id)}
    \cup CorroboratingSources([source |-> SourceHolding(preds, d.id), detection |-> d], preds, {}, p)

\* C4 as stated: with required_votes = 3, a detection on which only 2 sources
\* agree appears in no consensus group.
C4_TwoAgreeingSourcesNeverOutput ==
    (pc = "done" /\ params.required_votes = 3) =>
        \A d \in AllDetections(filtered) :
            Cardinality(AgreeingSources(d, filtered, params)) <= 2
                => \A i \in 1..Len(loop.groups) : d.id \notin GroupIds(loop.groups[i])

\* C4 amended: with required_votes = 3, every consensus detection merges
\* detections of at least 3 distinct sources, and nothing is output when fewer
\* than 3 sources hold detections.
C4_GroupsSpanThreeSources ==
    params.required_votes = 3 =>
        /\ Len(loop.consensus) = Len(loop.groups)
        /\ \A i \in 1..Len(loop.groups) :
              Cardinality({SourceHolding(predictions, id) : id \in GroupIds(loop.groups[i])}) >= 3
        /\ Cardinality({s \in 1..Len(predictions) : predictions[s] # <<>>}) < 3
              => loop.consensus = <<>>

\* required_votes = 3, one group of three sources was accepted, and the latest
\* seed, short of two matches, was not merged
C4_Witness ==
    /\ pc = "done"
    /\ params.required_votes = 3
    /\ Len(loop.groups) = 1
    /\ ~loop.last.merged

Reversed(seq) == [i \in 1..Len(seq) |-> seq[Len(seq) + 1 - i]]

\* two sources of one detection each, the two boxes identical, one parent_id,
\* required_votes = 2, not class-aware
TwoIdenticalDetections ==
    /\ Len(predictions) = 2
    /\ Len(predictions[1]) = 1
    /\ Len(predictions[2]) = 1
    /\ BoxOf(predictions[1][1]) = BoxOf(predictions[2][1])
    /\ predictions[1][1].parent_id = predictions[2][1].parent_id
    /\ params.required_votes = 2
    /\ ~params.class_aware

\* exactly one consensus detection, in the order given and in the opposite order
ExactlyOneInBothOrders ==
    /\ result.error = NoError
    /\ Len(result.consensus_detections) = 1
    /\ Len(ResolveBatchConsensus(Reversed(predictions), params, 0).result.consensus_detections) = 1

\* C5 as stated: two sources of one detection each with identical boxes,
\* required_votes = 2, not class-aware, give exactly one consensus detection in
\* either order of the sources.
C5_IdenticalPairGivesOne ==
    (pc = "done" /\ TwoIdenticalDetections) => ExactlyOneInBothOrders

\* C5 amended: the same, when both detections have a confidence above the
\* confidence threshold and a class among classes_to_consider.
C5_ConfidentIdenticalPairGivesOne ==
    (/\ pc = "done"
     /\ TwoIdenticalDetections
     /\ \A s \in 1..2 :
           /\ RatLT(params.confidence, predictions[s][1].confidence)
           /\ params.classes_to_consider.given
                 => predictions[s][1].class \in params.classes_to_consider.classes)
        => ExactlyOneInBothOrders

\* such a pair, of different classes, went through the run
C5_Witness ==
    /\ pc = "done"
    /\ TwoIdenticalDetections
    /\ predictions[1][1].class # predictions[2][1].class
    /\ Len(result.consensus_detections) = 1

\* C10: when the consensus set is empty, also when every source is empty,
\* resolve_batch_consensus returns normally: not present, no confidence, no
\* consensus detections.
C10_EmptyConsensusIsNotPresent ==
    (pc = "done" /\ loop.consensus = <<>>) =>
        /\ result.error = NoError
        /\ ~result.object_present
        /\ result.presence_confidence = <<>>
        /\ result.consensus_detections = <<>>

\* the detections the sources hold for image e of a batch
ImageDetections(values, e) ==
    UNION {IF values[i].nested
           THEN (IF e <= Len(values[i].items)
                 THEN {values[i].items[e][k] : k \in 1..Len(values[i].items[e])} ELSE {})
           ELSE (IF e = 1 THEN {values[i].items[k] : k \in 1..Len(values[i].items)} ELSE {})
           : i \in 1..Len(values)}

\* some image of the batch has detections of more than one parent_id
MixedParents(values) ==
    \E e \in 1..MaxBatch : Cardinality({d.parent_id : d \in ImageDetections(values, e)}) > 1

\* C6: when the detections of one image, the first or a later one of the batch,
\* carry more than one parent_id, the step ends with ExecutionGraphError and
\* has written nothing under its own key.
C6_MixedParentsRaiseExecutionGraphError ==
    (step_pc = "done" /\ MixedParents(all_predictions)) =>
        /\ step_outcome.error = ExecutionGraphError
        /\ OwnKey \notin DOMAIN outputs_lookup

\* the batch cardinality of one source: the number of images of a batch, 1 for
\* a flat list of detections
BatchCardinality(value) ==
    IF value.nested /\ Len(value.items) > 0 THEN Len(value.items) ELSE 1

\* C7: sources of unequal batch cardinality make the step raise
\* ExecutionGraphError naming the step, with nothing written; sources of equal
\* cardinality raise no dimension-mismatch error.
C7_UnequalBatchSizesRejected ==
    step_pc = "done" =>
        IF Cardinality({BatchCardinality(all_predictions[i]) : i \in 1..Len(all_predictions)}) > 1
        THEN /\ step_outcome = StepRaised(ExecutionGraphError, ReasonDimensions, StepName)
             /\ OwnKey \notin DOMAIN outputs_lookup
        ELSE step_outcome.reason # ReasonDimensions

\* two sources, of 2 and of 3 images, were rejected
C7_Witness ==
    /\ step_pc = "done"
    /\ Len(all_predictions) = 2
    /\ BatchCardinality(all_predictions[1]) = 2
    /\ BatchCardinality(all_predictions[2]) = 3
    /\ step_outcome.error = ExecutionGraphError

\* the consensus detections of one class
CountOfClass(detections, c) == Cardinality({i \in 1..Len(detections) : detections[i].class = c})

\* the confidence mapping of a present verdict: overall, or per class
ExpectedPresenceConfidence(detections, class_aware, mode) ==
    IF class_aware
    THEN [c \in {detections[i].class : i \in 1..Len(detections)} |->
             AggregateConfidence(OfClass(detections, c), mode)]
    ELSE [k \in {AnyObject} |-> AggregateConfidence(detections, mode)]

\* C8: for a non-empty consensus set and required_objects absent or a count n,
\* a verdict is returned whether class-aware or not: not present with an empty
\* mapping below n, otherwise present with the aggregated confidence, overall
\* or per class.
C8_CountVerdictForBothClassAware ==
    (/\ presence_pc = "done"
     /\ Len(presence_input.consensus_detections) > 0
     /\ presence_input.required_objects.kind \in {"none", "int"}) =>
        /\ presence_verdict.error = NoError
        /\ IF Len(presence_input.consensus_detections) < presence_input.required_objects.n
           THEN presence_verdict = Verdict(FALSE, <<>>)
           ELSE presence_verdict = Verdict(TRUE,
                    ExpectedPresenceConfidence(presence_input.consensus_detections,
                        presence_input.class_aware, presence_input.aggregation_mode))

\* required_objects, a mapping, is met: per class when class-aware, in total
\* otherwise
MappingMet(detections, class_aware, required) ==
    IF class_aware
    THEN \A c \in DOMAIN required.map : CountOfClass(detections, c) >= required.map[c]
    ELSE Len(detections) >= SumOver(required.map, DOMAIN required.map)

\* the verdict is present exactly when the mapping is met, and a verdict of
\* not present carries an empty mapping
VerdictFollowsMapping ==
    /\ presence_verdict.error = NoError
    /\ presence_verdict.object_present
          <=> MappingMet(presence_input.consensus_detections, presence_input.class_aware,
                         presence_input.required_objects)
    /\ ~presence_verdict.object_present => presence_verdict.presence_confidence = <<>>

InputConfidences ==
    {d.confidence : d \in AllDetections(predictions)}

\* two detections in all, of confidences 0.9 and 0.2, with the confidence
\* threshold 0.3, required_votes = 1, not class-aware, every class considered
ConfidentAndFaintDetection ==
    /\ Cardinality(AllDetections(predictions)) = 2
    /\ InputConfidences = {Rat(9, 10), Rat(2, 10)}
    /\ params.confidence = Rat(3, 10)
    /\ ~params.classes_to_consider.given
    /\ params.required_votes = 1
    /\ ~params.class_aware

\* C14: two detections of one image with confidences 0.9 and 0.2, confidence
\* threshold 0.3, required_votes = 1, not class-aware: the run returns exactly
\* one consensus detection, of confidence 0.9, wherever the two detections are
\* placed among the sources, overlapping or not, in every confidence
\* aggregation mode.
C14_OnlyConfidentDetectionSurvives ==
    (pc = "done" /\ ConfidentAndFaintDetection) =>
        /\ result.error = NoError
        /\ Len(result.consensus_detections) = 1
        /\ result.consensus_detections[1].confidence = Rat(9, 10)

\* ---- merge_detections (SpecMerge)

Area(d) == d.width * d.height

\* member i is the first member whose area no other member exceeds
FirstOfLargestArea(members, i) ==
    /\ \A j \in 1..Len(members) : Area(members[j]) <= Area(members[i])
    /\ \A j \in 1..(i - 1) : Area(members[j]) < Area(members[i])

\* member i is the first member of the smallest area
FirstOfSmallestArea(members, i) ==
    /\ \A j \in 1..Len(members) : Area(members[j]) >= Area(members[i])
    /\ \A j \in 1..(i - 1) : Area(members[j]) > Area(members[i])

\* r is an integer nearest to total / n
NearestInteger(r, total, n) == 2 * Abs(n * r - total) <= n

\* box has, field by field, an integer nearest to the mean of the members' fields
MeanBox(members, box) ==
    \A field \in {"x", "y", "width", "height"} :
        NearestInteger(box[field], IntSum([i \in 1..Len(members) |-> members[i][field]]), Len(members))

\* the boxes {x:0, y:0, w:10, h:10} and {x:4, y:0, w:10, h:10}
ExampleBoxes ==
    <<[x |-> 0, y |-> 0, width |-> 10, height |-> 10], [x |-> 4, y |-> 0, width |-> 10, height |-> 10]>>

BoxesOf(members) == [i \in 1..Len(members) |-> BoxOf(members[i])]

MergedBoxAsExpected(members, mode, merged) ==
    /\ mode = ModeMax =>
          \E i \in 1..Len(members) : FirstOfLargestArea(members, i) /\ BoxOf(merged) = BoxOf(members[i])
    /\ mode = ModeMin =>
          \E i \in 1..Len(members) : FirstOfSmallestArea(members, i) /\ BoxOf(merged) = BoxOf(members[i])
    /\ mode = ModeAverage => MeanBox(members, merged)
    /\ (mode = ModeAverage /\ BoxesOf(members) = ExampleBoxes) => merged.x = 2

\* C11: the box of a merged detection is, by the box aggregation mode, that of
\* the first member of the largest area (max), that of the first member of the
\* smallest area (min), or field by field an integer nearest to the mean of the
\* members' x, y, width and height (average); the boxes (0, 0, 10, 10) and
\* (4, 0, 10, 10) average to x = 2.
C11_MergedBoxFollowsBoxesAggregation ==
    merge_pc = "done" =>
        MergedBoxAsExpected(merge_input.detections, merge_input.boxes_aggregation_mode, merge_output)

\* the example boxes have been averaged
C11_Witness ==
    /\ merge_pc = "done"
    /\ merge_input.boxes_aggregation_mode = ModeAverage
    /\ BoxesOf(merge_input.detections) = ExampleBoxes
    /\ merge_output.x = 2

\* member i holds the given confidence and no member before it does
FirstWith(members, i, c) ==
    /\ members[i].confidence = c
    /\ \A j \in 1..(i - 1) : members[j].confidence # c

HighestConfidence(members, c) ==
    /\ \E i \in 1..Len(members) : members[i].confidence = c
    /\ \A i \in 1..Len(members) : RatLE(members[i].confidence, c)

LowestConfidence(members, c) ==
    /\ \E i \in 1..Len(members) : members[i].confidence = c
    /\ \A i \in 1..Len(members) : RatLE(c, members[i].confidence)

\* the position at which a class first appears among the members
FirstAppearance(members, c) ==
    CHOOSE i \in 1..Len(members) : members[i].class = c /\ \A j \in 1..(i - 1) : members[j].class # c

ClassesOf(members) == {members[i].class : i \in 1..Len(members)}

\* no class is held by more members than c, and c appears before every other
\* class held by as many
MajorityFirstEncountered(members, c) ==
    /\ c \in ClassesOf(members)
    /\ \A other \in ClassesOf(members) \ {c} :
          \/ ClassCount(members, other) < ClassCount(members, c)
          \/ /\ ClassCount(members, other) = ClassCount(members, c)
             /\ FirstAppearance(members, c) < FirstAppearance(members, other)

MergedClassAsExpected(members, mode, merged) ==
    /\ mode = ModeMax =>
          \E i \in 1..Len(members), c \in {members[k].confidence : k \in 1..Len(members)} :
              /\ HighestConfidence(members, c) /\ FirstWith(members, i, c)
              /\ merged.class = members[i].class /\ merged.class_id = members[i].class_id
    /\ mode = ModeMin =>
          \E i \in 1..Len(members), c \in {members[k].confidence : k \in 1..Len(members)} :
              /\ LowestConfidence(members, c) /\ FirstWith(members, i, c)
              /\ merged.class = members[i].class /\ merged.class_id = members[i].class_id
    /\ mode = ModeAverage =>
          /\ MajorityFirstEncountered(members, merged.class)
          /\ merged.class_id = members[FirstAppearance(members, merged.class)].class_id
    /\ \E i \in 1..Len(members) :
          members[i].class = merged.class /\ members[i].class_id = merged.class_id

\* C12: the class and class_id of a merged detection are, by the confidence
\* aggregation mode, those of the first member of the highest confidence (max),
\* those of the first member of the lowest confidence (min), or the class held
\* by the most members, the first encountered of several such, with the
\* class_id of the first member of that class (average); in every mode some
\* member holds both the class and the class_id.
C12_MergedClassFollowsConfidenceAggregation ==
    merge_pc = "done" =>
        MergedClassAsExpected(merge_input.detections, merge_input.confidence_aggregation_mode, merge_output)

\* two classes are held by equally many members and the first encountered is
\* taken, while the boxes are aggregated in another mode
C12_Witness ==
    /\ merge_pc = "done"
    /\ merge_input.confidence_aggregation_mode = ModeAverage
    /\ merge_input.boxes_aggregation_mode # ModeAverage
    /\ ClassCount(merge_input.detections, ClassA) = ClassCount(merge_input.detections, ClassB)
    /\ merge_input.detections[1].class = ClassB
    /\ merge_output.class = ClassB
    /\ merge_output.class_id = ClassIdOf(ClassB)

\* ---- calculate_iou (SpecIou)

RatZero == Rat(0, 1)
RatOne == Rat(1, 1)

SameBox(detection_a, detection_b) == BoxOf(detection_a) = BoxOf(detection_b)

\* calculate_iou gives a value, in [0, 1], the same in both orders of its
\* arguments, and 1 for identical boxes
IouAsExpected(detection_a, detection_b) ==
    /\ IouOutcome(detection_a, detection_b).error = NoError
    /\ RatLE(RatZero, IouOutcome(detection_a, detection_b).value)
    /\ RatLE(IouOutcome(detection_a, detection_b).value, RatOne)
    /\ IouOutcome(detection_b, detection_a) = IouOutcome(detection_a, detection_b)
    /\ SameBox(detection_a, detection_b) => IouOutcome(detection_a, detection_b).value = RatOne

\* for detections of integer centres and non-negative integer extents the
\* value calculate_iou returned is defined, in [0, 1], symmetric, and 1 for
\* identical boxes
IouOfNonNegativeExtentsAsExpected ==
    iou_pc = "done" => (iou_value = IouOutcome(iou_a, iou_b) /\ IouAsExpected(iou_a, iou_b))

\* calculate_iou of two detections a DetectionOffset step emitted does not
\* divide by zero
IouOfOffsetDetectionsDefined ==
    iou_pc = "done-offset" => iou_value.error # ZeroDivisionError

\* C13: for detections of integer centres and non-negative integer extents
\* calculate_iou returns a defined value in [0, 1], symmetric in its arguments
\* and 1 for identical boxes, and it does not divide by zero on detections that
\* a DetectionOffset step emitted.
C13_IouDefinedBoundedSymmetric ==
    IouOfNonNegativeExtentsAsExpected /\ IouOfOffsetDetectionsDefined

\* ---- the Condition step (SpecCondition)

\* the relation an operator stands for holds between two resolved values
OperatorHolds(operator, left_value, right_value) ==
    \/ operator = OperatorEqual /\ left_value = right_value
    \/ operator = OperatorNotEqual /\ left_value # right_value
    \/ operator = OperatorLowerThan
          /\ left_value.num.num * right_value.num.den < right_value.num.num * left_value.num.den
    \/ operator = OperatorGreaterThan
          /\ left_value.num.num * right_value.num.den > right_value.num.num * left_value.num.den
    \/ operator = OperatorLowerOrEqualThan
          /\ left_value.num.num * right_value.num.den <= right_value.num.num * left_value.num.den
    \/ operator = OperatorGreaterOrEqualThan
          /\ left_value.num.num * right_value.num.den >= right_value.num.num * left_value.num.den
    \/ operator = OperatorIn /\ left_value \in {right_value.list[i] : i \in 1..Len(right_value.list)}

\* the Condition step of the workflow holds on the values its operands resolve to
ConditionHolds ==
    OperatorHolds(steps.condition.operator,
                  ResolveParameter(steps.condition.left, runtime_parameters, outputs_lookup),
                  ResolveParameter(steps.condition.right, runtime_parameters, outputs_lookup))

\* the Condition step executes in this step
ConditionExecutes == "condition" \notin executed /\ "condition" \in executed'

ConditionStepAsExpected ==
    ConditionExecutes =>
        /\ next_step' = IF ConditionHolds THEN steps.condition.step_if_true ELSE steps.condition.step_if_false
        /\ outputs_lookup' = outputs_lookup

OutputSteps == {"crop", "static_crop", "filter", "offset", "offset_again", StepName}

\* the step of that name executes in this step, and raises nothing
Executes(name) ==
    IF name = StepName THEN step_pc = "ready" /\ step_pc' = "done" /\ step_outcome'.error = NoError
    ELSE name \notin executed /\ name \in executed'

\* the keys assigned in this step: those added and those whose entry changed
KeysWritten ==
    {k \in DOMAIN outputs_lookup' : k \notin DOMAIN outputs_lookup \/ outputs_lookup'[k] # outputs_lookup[k]}

WritesOwnKeyOnly ==
    \A name \in OutputSteps :
        Executes(name) =>
            /\ ConstructStepSelector(name) \notin DOMAIN outputs_lookup
            /\ KeysWritten = {ConstructStepSelector(name)}
            /\ DOMAIN outputs_lookup' = DOMAIN outputs_lookup \cup {ConstructStepSelector(name)}

\* C16: a successful execution of a Crop, StaticCrop, DetectionFilter,
\* DetectionOffset or DetectionsConsensus step assigns the Outputs Lookup under
\* the key of its own step name and under no other key, and that key was not
\* in the lookup before: with unique step names, each executed at most once,
\* no key is written twice and no two steps write one key.
C16_EachStepWritesItsOwnKeyOnce == [][WritesOwnKeyOnly]_vars

\* every output-producing step of the workflow has written its entry
C16_Witness ==
    /\ executed = {"crop", "static_crop", "filter", "offset", "offset_again", "condition"}
    /\ step_pc = "done"
    /\ DOMAIN outputs_lookup = {ModelKey} \cup {ConstructStepSelector(name) : name \in OutputSteps}

\* the detections held by an entry of the lookup
EntryDetections(entry) ==
    UNION {IF "predictions" \in DOMAIN entry.value[e]
           THEN {entry.value[e].predictions[i] : i \in 1..Len(entry.value[e].predictions)}
           ELSE {} : e \in 1..Len(entry.value)}

LookupDetections(lookup) == UNION {EntryDetections(lookup[k]) : k \in DOMAIN lookup}

\* the dict a detection is held in: a copy is known by the identity given to
\* it, a merged detection is a dict made for it and known by its uuid
Identity(d) == IF "obj" \in DOMAIN d THEN d.obj ELSE d.id

NothingModifiedInPlace ==
    /\ runtime_parameters' = runtime_parameters
    /\ \A k \in DOMAIN outputs_lookup :
          k \in DOMAIN outputs_lookup' /\ outputs_lookup'[k] = outputs_lookup[k]
    /\ \A e \in LookupDetections(outputs_lookup'), d \in LookupDetections(outputs_lookup) :
          Identity(e) = Identity(d) => e = d

\* C17: whatever step executes, the runtime parameters and every entry that was
\* in the Outputs Lookup keep their content, and a detection in the lookup
\* afterwards that is held in a dict that existed before has the content that
\* dict had: a detection emitted with other content is a separate copy.
C17_NoInputModifiedInPlace == [][NothingModifiedInPlace]_vars

\* the offset step emitted a detection with another width than the one it read,
\* the filter kept a detection, and the consensus step merged one
C17_Witness ==
    /\ {"offset", "filter"} \subseteq executed
    /\ step_pc = "done"
    /\ \E e \in EntryDetections(outputs_lookup[ConstructStepSelector("offset")]),
          d \in EntryDetections(outputs_lookup[ModelKey]) :
            e.parent_id = d.id /\ e.width # d.width /\ Identity(e) # Identity(d)
    /\ EntryDetections(outputs_lookup[ConstructStepSelector("filter")]) # {}
    /\ OwnKey \in DOMAIN outputs_lookup
    /\ EntryDetections(outputs_lookup[OwnKey]) # {}

\* ---- DetectionOffset (SpecWorkflow)

\* the lists of detections an entry holds, one for each of its elements
PredictionLists(entry) == [e \in 1..Len(entry.value) |-> entry.value[e].predictions]

\* the ids of the detections an entry holds
IdsIn(entry) == {d.id : d \in EntryDetections(entry)}

\* d stands to the input detection as an offset detection: extents moved by
\* the rounded offsets, every other field kept, a parent_id that is the input's id
OffsetOf(d, input, offset_x, offset_y) ==
    /\ d.width = input.width + PyRoundDiv(offset_x.num, offset_x.den)
    /\ d.height = input.height + PyRoundDiv(offset_y.num, offset_y.den)
    /\ d.x = input.x /\ d.y = input.y
    /\ d.class = input.class /\ d.class_id = input.class_id /\ d.confidence = input.confidence
    /\ d.parent_id = input.id

\* the entry written holds, element by element and in order, one detection
\* for each detection of the entry read, offset and named afresh
OffsetEntryAsExpected(written, read, offset_x, offset_y) ==
    /\ written.single = read.single
    /\ Len(written.value) = Len(read.value)
    /\ \A e \in 1..Len(read.value) :
          /\ Len(written.value[e].predictions) = Len(read.value[e].predictions)
          /\ \A i \in 1..Len(read.value[e].predictions) :
                OffsetOf(written.value[e].predictions[i], read.value[e].predictions[i], offset_x, offset_y)
    /\ IdsIn(written) \cap IdsIn(read) = {}
    /\ Cardinality(IdsIn(written)) = Cardinality(IdsIn(read))

OffsetStepAsExpected(step) ==
    step.name \in executed =>
        OffsetEntryAsExpected(outputs_lookup[ConstructStepSelector(step.name)],
                              outputs_lookup[step.predictions.key],
                              step.offset_x.value, step.offset_y.value)

\* C18: a DetectionOffset step emits, for every detection it reads, one
\* detection with the width and height moved by round(offset_x) and
\* round(offset_y), the centre and the other fields unchanged, an id that no
\* detection read has, and the id of the detection read as parent_id; the step
\* that reads the output of the first one stands to it in the same way, so the
\* parent_id of each detection names the one it was derived from.
C18_OffsetDetectionsAsExpected ==
    OffsetStepAsExpected(steps.offset) /\ OffsetStepAsExpected(steps.offset_again)

\* a detection offset twice, by a half-way offset that rounds to even: its
\* parent is the detection offset once, whose parent is the one the model found
C18_Witness ==
    /\ {"offset", "offset_again"} \subseteq executed
    /\ steps.offset.offset_x.value = Rat(-5, 2)
    /\ \E c \in EntryDetections(outputs_lookup[ConstructStepSelector("offset_again")]),
          b \in EntryDetections(outputs_lookup[ConstructStepSelector("offset")]),
          a \in EntryDetections(outputs_lookup[ModelKey]) :
            /\ c.parent_id = b.id /\ b.parent_id = a.id
            /\ Cardinality({a.id, b.id, c.id}) = 3
            /\ c.width = a.width - 4 /\ c.height = a.height + 4

\* ---- Crop (SpecWorkflow)

RECURSIVE Chained(_)
Chained(lists) == IF lists = <<>> THEN <<>> ELSE Head(lists) \o Chained(Tail(lists))

\* which of the lists holds the k-th detection of the chain
RECURSIVE ListOf(_, _, _)
ListOf(lists, k, e) == IF k <= Len(lists[e]) THEN e ELSE ListOf(lists, k - Len(lists[e]), e + 1)

\* the size of the image an input image was taken from: its own, unless it is a crop
OriginSizeOf(image) ==
    IF image.origin_coordinates.given THEN image.origin_coordinates.origin_image_size
    ELSE [height |-> image.value.rows, width |-> image.value.cols]

\* the detections the Crop step read, image by image
CropStepDetections == PredictionLists(outputs_lookup[steps.crop.detections.key])

\* the crops of the entry written follow the detections read, in their order
\* over the batch, each placed at the centre of its detection in the image it
\* was cut from
CropsFollowDetections(crops, lists, images) ==
    /\ Len(crops) = Len(Chained(lists))
    /\ \A k \in 1..Len(crops) :
          /\ crops[k].origin_coordinates.given
          /\ crops[k].origin_coordinates.center_x = Chained(lists)[k].x
          /\ crops[k].origin_coordinates.center_y = Chained(lists)[k].y
          /\ crops[k].origin_coordinates.origin_image_size = OriginSizeOf(images[ListOf(lists, k, 1)])

CropsOfDetections ==
    CropsFollowDetections(outputs_lookup[ConstructStepSelector("crop")].value[1].crops,
                          CropStepDetections, runtime_parameters.image.items)

\* C19, as stated: the Crop step emits one crop per detection read, in
\* detection order over the batch, placed by the detection's centre and the
\* origin size of the image cut, and the parent_id of the crop is the
\* parent_id of its detection.
C19_CropParentIsDetectionParent ==
    "crop" \in executed =>
        /\ CropsOfDetections
        /\ \A k \in 1..Len(Chained(CropStepDetections)) :
              outputs_lookup[ConstructStepSelector("crop")].value[1].crops[k].parent_id
                  = Chained(CropStepDetections)[k].parent_id

\* C19, amended: the Crop step emits one crop per detection read, in
\* detection order over the batch, placed by the detection's centre and the
\* origin size of the image cut, and the parent_id of the crop is the id of
\* its detection (not the detection's parent_id).
C19_CropParentIsDetectionId ==
    "crop" \in executed =>
        /\ CropsOfDetections
        /\ \A k \in 1..Len(Chained(CropStepDetections)) :
              outputs_lookup[ConstructStepSelector("crop")].value[1].crops[k].parent_id
                  = Chained(CropStepDetections)[k].id
        /\ outputs_lookup[ConstructStepSelector("crop")].value[1].parent_id
              = [k \in 1..Len(Chained(CropStepDetections)) |-> Chained(CropStepDetections)[k].id]

\* two images that are crops themselves, a detection in each: the second crop
\* belongs to the detection of the second image, whose parent is another detection
C19_Witness ==
    /\ "crop" \in executed
    /\ steps.images_are_crops
    /\ Len(CropStepDetections) = 2
    /\ Len(CropStepDetections[1]) = 1 /\ Len(CropStepDetections[2]) = 1
    /\ outputs_lookup[ConstructStepSelector("crop")].value[1].crops[2].parent_id = CropStepDetections[2][1].id
    /\ CropStepDetections[2][1].parent_id \in IdsIn(outputs_lookup[ModelKey])
    /\ CropStepDetections[2][1].parent_id # CropStepDetections[2][1].id

\* ---- DetectionFilter (SpecWorkflow)

\* the predicate of a filter definition holds for a detection
RECURSIVE PredicateHolds(_, _)
PredicateHolds(definition, d) ==
    IF definition.type = "CompoundDetectionFilterDefinition"
    THEN IF definition.operator = BinaryOperatorAnd
         THEN PredicateHolds(definition.left, d) /\ PredicateHolds(definition.right, d)
         ELSE PredicateHolds(definition.left, d) \/ PredicateHolds(definition.right, d)
    ELSE OperatorHolds(definition.operator, FieldValue(d, definition.field_name), definition.reference_value)

\* the positions of the detections of a list for which the predicate holds
Matching(list, definition) == {i \in 1..Len(list) : PredicateHolds(definition, list[i])}

\* the j-th of the matching positions
Nth(positions, j) == CHOOSE i \in positions : Cardinality({k \in positions : k <= i}) = j

\* the output list holds the matching detections of the input list, in their
\* order, each with the fields it had
FilteredAsExpected(output, input, definition) ==
    /\ Len(output) = Cardinality(Matching(input, definition))
    /\ \A j \in 1..Len(output) :
          [output[j] EXCEPT !.obj = 0] = [input[Nth(Matching(input, definition), j)] EXCEPT !.obj = 0]

FilterEntryAsExpected(written, read, definition) ==
    /\ written.single = read.single
    /\ Len(written.value) = Len(read.value)
    /\ \A e \in 1..Len(read.value) :
          /\ FilteredAsExpected(written.value[e].predictions, read.value[e].predictions, definition)
          /\ written.value[e].parent_id = ParentIdsOf(written.value[e].predictions)

\* C20: the DetectionFilter step outputs the detections read for which the
\* predicate of its filter definition holds, and no other, in their order and
\* with their fields unchanged; a dict read gives a dict, a list of dicts gives
\* a list with one element for each, which holds the detections kept of that
\* element (maybe none) and the list of their parent_ids.
C20_FilterKeepsMatchingDetections ==
    "filter" \in executed =>
        FilterEntryAsExpected(outputs_lookup[ConstructStepSelector("filter")],
                              outputs_lookup[steps.filter.predictions.key],
                              steps.filter.filter_definition)

\* a batch of two images: of the two detections of the first the filter kept
\* the second only, of the second image it kept none... the element is there, empty
C20_Witness ==
    /\ "filter" \in executed
    /\ ~outputs_lookup[steps.filter.predictions.key].single
    /\ Len(outputs_lookup[ConstructStepSelector("filter")].value) = 2
    /\ Len(outputs_lookup[steps.filter.predictions.key].value[1].predictions) = 2
    /\ Len(outputs_lookup[ConstructStepSelector("filter")].value[1].predictions) = 1
    /\ outputs_lookup[ConstructStepSelector("filter")].value[1].predictions[1].id
          = outputs_lookup[steps.filter.predictions.key].value[1].predictions[2].id
    /\ outputs_lookup[ConstructStepSelector("filter")].value[2].predictions = <<>>
    /\ outputs_lookup[ConstructStepSelector("filter")].value[2].parent_id = <<>>

\* ---- the pixels of a crop (SpecWorkflow)

\* how many of the pixels lo, lo + 1, ..., hi - 1 lie on an axis of n pixels
InsideCount(lo, hi, n) == Cardinality({i \in 0..(n - 1) : lo <= i /\ i < hi})

\* the crop has the rows and columns of the box [x_min, x_min + width) x
\* [y_min, y_min + height) that lie inside the image
CoversBoxInside(crop, image, x_min, y_min, width, height) ==
    /\ crop.value.rows = InsideCount(y_min, y_min + height, image.value.rows)
    /\ crop.value.cols = InsideCount(x_min, x_min + width, image.value.cols)

\* round(center - extent / 2) for whole numbers
RoundedMin(center, extent) == PyRoundDiv(2 * center - extent, 2)

CropsCoverDetections(crops, lists, images) ==
    \A k \in 1..Len(crops) :
        CoversBoxInside(crops[k], images[ListOf(lists, k, 1)],
                        RoundedMin(Chained(lists)[k].x, Chained(lists)[k].width),
                        RoundedMin(Chained(lists)[k].y, Chained(lists)[k].height),
                        Chained(lists)[k].width, Chained(lists)[k].height)

\* a relative coordinate in pixels: the fraction of the dimension, rounded
InPixels(crop, coordinate, dimension) ==
    IF crop.type = RelativeStaticCrop
    THEN PyRoundDiv(dimension * coordinate.num, coordinate.den)
    ELSE PyRoundDiv(coordinate.num, coordinate.den)

StaticCropsCoverBox(crops, crop, images) ==
    \A i \in 1..Len(crops) :
        CoversBoxInside(crops[i], images[i],
                        RoundedMin(InPixels(crop, crop.x_center, images[i].value.cols),
                                   InPixels(crop, crop.width, images[i].value.cols)),
                        RoundedMin(InPixels(crop, crop.y_center, images[i].value.rows),
                                   InPixels(crop, crop.height, images[i].value.rows)),
                        InPixels(crop, crop.width, images[i].value.cols),
                        InPixels(crop, crop.height, images[i].value.rows))

\* C21: the crop of a Crop or StaticCrop step covers the pixels of the box
\* min = round(center - extent / 2), max = min + extent (relative coordinates
\* first multiplied by the image's dimensions and rounded) that lie inside
\* the image, also when the box reaches past the left or the upper border.
C21_CropCoversBoxInsideImage ==
    /\ "crop" \in executed =>
          CropsCoverDetections(outputs_lookup[ConstructStepSelector("crop")].value[1].crops,
                               CropStepDetections, runtime_parameters.image.items)
    /\ "static_crop" \in executed =>
          StaticCropsCoverBox(outputs_lookup[ConstructStepSelector("static_crop")].value[1].crops,
                              steps.static_crop, runtime_parameters.image.items)

\* what holds of the code: the boxes that do not begin before the first row
\* or column are cut to the image
C21_BoxesFromInsideAreClipped ==
    /\ "crop" \in executed =>
          \A k \in 1..Len(Chained(CropStepDetections)) :
             (/\ RoundedMin(Chained(CropStepDetections)[k].x, Chained(CropStepDetections)[k].width) >= 0
              /\ RoundedMin(Chained(CropStepDetections)[k].y, Chained(CropStepDetections)[k].height) >= 0
              /\ Chained(CropStepDetections)[k].width >= 0 /\ Chained(CropStepDetections)[k].height >= 0)
             => CoversBoxInside(outputs_lookup[ConstructStepSelector("crop")].value[1].crops[k],
                                runtime_parameters.image.items[ListOf(CropStepDetections, k, 1)],
                                RoundedMin(Chained(CropStepDetections)[k].x, Chained(CropStepDetections)[k].width),
                                RoundedMin(Chained(CropStepDetections)[k].y, Chained(CropStepDetections)[k].height),
                                Chained(CropStepDetections)[k].width, Chained(CropStepDetections)[k].height)
    /\ "static_crop" \in executed =>
          StaticCropsCoverBox(outputs_lookup[ConstructStepSelector("static_crop")].value[1].crops,
                              steps.static_crop, runtime_parameters.image.items)

\* =========================================================================
\* the Graph Runner and the Flow Controller
\* =========================================================================

MaxConcurrentSteps == 2

ConditionName == "condition"

\* the steps of the workflows run: two model steps, one on the input "image"
\* (one image or a batch) and one on the input "template" (one image), a
\* Condition step, and steps that read the outputs of others
RunnerSteps == {"model", "template_model", ConditionName, "crop", "static_crop", "offset", "filter"}

\* a workflow's graph: the steps whose outputs the selectors of each step
\* refer to, and the steps the Condition step names
RunGraph(data, step_if_true, step_if_false) ==
    [data |-> data, step_if_true |-> step_if_true, step_if_false |-> step_if_false]

\* the selectors of the workflow whose branches end in steps of their own
BranchingData ==
    [s \in RunnerSteps |->
        CASE s = ConditionName -> {"model"}
          [] s = "crop" -> {"model"}
          [] s = "static_crop" -> {"template_model"}
          [] s = "offset" -> {"crop"}
          [] s = "filter" -> {"static_crop"}
          [] OTHER -> {}]

\* the workflows tried: two branches of two steps each; both branches naming
\* the same step; two branches that meet in a step reading from both
GraphsTried ==
    {RunGraph(BranchingData, "crop", "static_crop"),
     RunGraph([BranchingData EXCEPT !["filter"] = {"model"}], "crop", "crop"),
     RunGraph([BranchingData EXCEPT !["filter"] = {"offset", "static_crop"}], "crop", "static_crop")}

\* the declared outputs of the workflows: name -> the step whose predictions it selects
DeclaredOutputs ==
    [all_predictions |-> "model", top_prediction |-> "filter", template |-> "template_model", crops |-> "offset"]

\* the edges of the execution graph that leave a step: to the steps that read
\* its output and, from the Condition step, to the steps it names
Successors(graph, s) ==
    {t \in RunnerSteps : s \in graph.data[t]}
        \cup (IF s = ConditionName THEN {graph.step_if_true, graph.step_if_false} ELSE {})

\* the steps reachable from a set of steps, these included
RECURSIVE ReachableFrom(_, _)
ReachableFrom(graph, from) ==
    IF UNION {Successors(graph, s) : s \in from} \subseteq from THEN from
    ELSE ReachableFrom(graph, from \cup UNION {Successors(graph, s) : s \in from})

\* the steps reachable only through the branch that was not taken
PrunedBy(graph, taken) ==
    ReachableFrom(graph, {graph.step_if_true, graph.step_if_false} \ {taken}) \ ReachableFrom(graph, {taken})

\* the steps that work on every element of the image batch: the model step on
\* "image" and the steps that read from such a step
BatchSteps(graph) == ReachableFrom([graph EXCEPT !.step_if_true = "model", !.step_if_false = "model"], {"model"})

\* how many results a run has: one for each element of the image batch
ResultCount(workflow) == IF workflow.image_is_list THEN workflow.images ELSE 1

\* what a step found for an element: nothing, for the steps chosen to find nothing
FoundByStep(workflow, s, i) == IF s \in workflow.empty THEN <<>> ELSE <<[step |-> s, element |-> i]>>

\* the output of a step: a list with one element for each image of the batch,
\* a dict when the step worked on one image
OutputOfStep(workflow, s) ==
    IF workflow.image_is_list /\ s \in BatchSteps(workflow.graph)
    THEN BatchOutput([i \in 1..workflow.images |-> [predictions |-> FoundByStep(workflow, s, i)]])
    ELSE SingleOutput([predictions |-> FoundByStep(workflow, s, 1)])

\* the value of a declared output for the i-th result: the selected field of
\* the i-th element of the step's output, of its only element when the step
\* worked on one image; nothing for a step that did not run
NotProduced == [produced |-> FALSE, value |-> <<>>]

OutputValue(lookup, step, i) ==
    IF step \notin DOMAIN lookup THEN NotProduced
    ELSE [produced |-> TRUE,
          value |-> lookup[step].value[IF lookup[step].single THEN 1 ELSE i].predictions]

\* the results of a run holding only the outputs that hold detections
RunResultsOfDetections(workflow, lookup) ==
    [i \in 1..ResultCount(workflow) |->
        [name \in {n \in DOMAIN workflow.outputs : OutputValue(lookup, workflow.outputs[n], i).value # <<>>} |->
            OutputValue(lookup, workflow.outputs[name], i)]]

\* the results of a run
RunResults(workflow, lookup) ==
    [i \in 1..ResultCount(workflow) |->
        [name \in DOMAIN workflow.outputs |-> OutputValue(lookup, workflow.outputs[name], i)]]

WorkflowsRun(max_images, max_concurrent) ==
    [graph : GraphsTried,
     images : 1..max_images,
     image_is_list : BOOLEAN,
     limit : 1..max_concurrent,
     empty : {{}, {"model", "filter"}},
     outputs : {DeclaredOutputs}]

InitRunner ==
    /\ run_workflow \in {w \in WorkflowsRun(MaxImages, MaxConcurrentSteps) : w.image_is_list \/ w.images = 1}
    /\ run_status = [s \in RunnerSteps |-> "pending"]
    /\ run_lookup = <<>>
    /\ run_next = NoStep
    /\ run_failure = NoStep
    /\ run_outcome = "running"
    /\ run_result = <<>>

StepsRunning == {s \in RunnerSteps : run_status[s] = "running"}

\* a step eligible as soon as the steps it reads from were dispatched
EligibleOnceDispatched(s) ==
    /\ run_status[s] = "pending"
    /\ \A a \in run_workflow.graph.data[s] : run_status[a] \in {"running", "done"}
    /\ s \in {run_workflow.graph.step_if_true, run_workflow.graph.step_if_false}
          => run_status[ConditionName] = "done"

\* a step is eligible once every step it reads from has written its output
\* and, for a step the Condition step names, once that step has completed
Eligible(s) ==
    /\ run_status[s] = "pending"
    /\ \A a \in run_workflow.graph.data[s] : a \in DOMAIN run_lookup
    /\ s \in {run_workflow.graph.step_if_true, run_workflow.graph.step_if_false}
          => run_status[ConditionName] = "done"

\* the Runner dispatching whatever is eligible, also after a failure
StartStepAfterFailure(s) ==
    /\ run_outcome = "running"
    /\ Eligible(s)
    /\ Cardinality(StepsRunning) < run_workflow.limit
    /\ run_status' = [run_status EXCEPT ![s] = "running"]
    /\ UNCHANGED <<run_workflow, run_lookup, run_next, run_failure, run_outcome, run_result>>

\* the Runner dispatches an eligible step, up to the limit of concurrent
\* steps, as long as no step has failed
StartStep(s) ==
    /\ run_outcome = "running"
    /\ run_failure = NoStep
    /\ Eligible(s)
    /\ Cardinality(StepsRunning) < run_workflow.limit
    /\ run_status' = [run_status EXCEPT ![s] = "running"]
    /\ UNCHANGED <<run_workflow, run_lookup, run_next, run_failure, run_outcome, run_result>>

\* a step that produces output completes: its output is written under its name
CompleteStep(s) ==
    /\ run_outcome = "running"
    /\ s # ConditionName
    /\ run_status[s] = "running"
    /\ run_status' = [run_status EXCEPT ![s] = "done"]
    /\ run_lookup' = [k \in DOMAIN run_lookup \cup {s} |->
                         IF k = s THEN OutputOfStep(run_workflow, s) ELSE run_lookup[k]]
    /\ UNCHANGED <<run_workflow, run_next, run_failure, run_outcome, run_result>>

\* the Condition step completing without any step leaving the schedule
CompleteConditionKeepingAll(taken) ==
    /\ run_outcome = "running"
    /\ run_status[ConditionName] = "running"
    /\ taken \in {run_workflow.graph.step_if_true, run_workflow.graph.step_if_false}
    /\ run_next' = taken
    /\ run_status' = [run_status EXCEPT ![ConditionName] = "done"]
    /\ UNCHANGED <<run_workflow, run_lookup, run_failure, run_outcome, run_result>>

\* the Condition step completes and names the next step: the steps reachable
\* only through the other branch leave the schedule
CompleteCondition(taken) ==
    /\ run_outcome = "running"
    /\ run_status[ConditionName] = "running"
    /\ taken \in {run_workflow.graph.step_if_true, run_workflow.graph.step_if_false}
    /\ run_next' = taken
    /\ run_status' = [s \in RunnerSteps |->
                         IF s = ConditionName THEN "done"
                         ELSE IF s \in PrunedBy(run_workflow.graph, taken) /\ run_status[s] = "pending" THEN "pruned"
                         ELSE run_status[s]]
    /\ UNCHANGED <<run_workflow, run_lookup, run_failure, run_outcome, run_result>>

\* a step executor raises: the first failure is kept
FailStep(s) ==
    /\ run_outcome = "running"
    /\ run_status[s] = "running"
    /\ run_status' = [run_status EXCEPT ![s] = "failed"]
    /\ run_failure' = IF run_failure = NoStep THEN s ELSE run_failure
    /\ UNCHANGED <<run_workflow, run_lookup, run_next, run_outcome, run_result>>

\* the run ends when no step is in flight and none can be dispatched: with
\* the first failure, or with the results
EndRun ==
    /\ run_outcome = "running"
    /\ StepsRunning = {}
    /\ run_failure # NoStep \/ \A s \in RunnerSteps : ~Eligible(s)
    /\ run_outcome' = IF run_failure # NoStep THEN "failed" ELSE "finished"
    /\ run_result' = IF run_failure # NoStep THEN <<>> ELSE RunResults(run_workflow, run_lookup)
    /\ UNCHANGED <<run_workflow, run_status, run_lookup, run_next, run_failure>>

RunnerIdleRest ==
    UNCHANGED <<consensusVars, stepVars, presenceVars, mergeVars, iouVars, executorVars, serviceVars>>

InitRunnerSpec ==
    /\ IdleConsensus /\ IdleStep /\ IdlePresence /\ IdleMerge /\ IdleIou /\ IdleExecutors /\ IdleServices
    /\ InitRunner

NextRunner ==
    \/ \E s \in RunnerSteps : StartStep(s) /\ RunnerIdleRest
    \/ \E s \in RunnerSteps : CompleteStep(s) /\ RunnerIdleRest
    \/ \E s \in RunnerSteps : CompleteCondition(s) /\ RunnerIdleRest
    \/ \E s \in RunnerSteps : FailStep(s) /\ RunnerIdleRest
    \/ EndRun /\ RunnerIdleRest

SpecRunner == InitRunnerSpec /\ [][NextRunner]_vars

\* =========================================================================
\* properties of the Graph Runner (SpecRunner)
\* =========================================================================

\* the step is dispatched in this step
Starts(s) == run_status[s] # "running" /\ run_status'[s] = "running"

DependenciesWrittenAtStart ==
    \A b \in RunnerSteps :
        Starts(b) =>
            \A a \in run_workflow.graph.data[b] :
                /\ run_status[a] = "done"
                /\ a \in DOMAIN run_lookup
                /\ run_lookup[a] = OutputOfStep(run_workflow, a)

\* C22: whenever a step B starts, every step A whose output a selector of B
\* refers to has completed and its whole output is in the Outputs Lookup,
\* whatever the order in which the concurrently dispatched steps start and end.
C22_StepStartsAfterItsDependenciesWrote == [][DependenciesWrittenAtStart]_vars

\* two steps in flight at once, each reading the output of another step
C22_Witness ==
    /\ run_status["crop"] = "running"
    /\ run_status["static_crop"] = "running"
    /\ {"model", "template_model"} \subseteq DOMAIN run_lookup

FailureCancelsRun ==
    /\ \A s \in RunnerSteps :
          /\ run_failure # NoStep => ~Starts(s)
          /\ run_status[s] \in {"failed", "done"} => run_status'[s] = run_status[s]
          /\ (run_failure = NoStep /\ run_status[s] # "failed" /\ run_status'[s] = "failed") => run_failure' = s
    /\ run_failure # NoStep => run_failure' = run_failure
    /\ \A k \in DOMAIN run_lookup : k \in DOMAIN run_lookup' /\ run_lookup'[k] = run_lookup[k]
    /\ run_failure' # NoStep => run_outcome' # "finished" /\ run_result' = <<>>
    /\ (run_outcome = "running" /\ run_outcome' # "running" /\ run_failure # NoStep) => run_outcome' = "failed"

\* C23: once a step executor has failed no step is dispatched (the steps in
\* flight may still complete or fail), a run that ends then ends as failed
\* with the step that failed first and without results, a step that failed or
\* completed is never run again, and what was in the Outputs Lookup stays.
C23_FailureCancelsRun == [][FailureCancelsRun]_vars

\* a run that ended as failed: the model step failed first while another was
\* in flight, which completed, and its output is in the lookup
C23_Witness ==
    /\ run_outcome = "failed"
    /\ run_failure = "model"
    /\ run_status["model"] = "failed"
    /\ run_status["template_model"] = "done"
    /\ "template_model" \in DOMAIN run_lookup
    /\ run_status["static_crop"] = "pending"
    /\ run_result = <<>>

BranchNotTakenNeverRuns ==
    /\ run_next' # NoStep =>
          /\ \A s \in PrunedBy(run_workflow.graph, run_next') : run_status'[s] \in {"pruned"}
          /\ run_status'[run_next'] # "pruned"
          /\ run_outcome' = "finished" => run_status'[run_next'] = "done"
    /\ \A s \in RunnerSteps : Starts(s) => run_status[s] = "pending"
    /\ \A s \in RunnerSteps : run_status[s] \in {"done", "pruned"} => run_status'[s] = run_status[s]

MaxModels == 2
MaxRequests == 2
MaxLatest == 3

\* request["request"]["image"]: None, a list of images, or one image
NoImages == [kind |-> "none", items |-> <<>>]
ImagesInList(images) == [kind |-> "list", items |-> images]
ImageAlone(image) == [kind |-> "one", items |-> <<image>>]

Base64Image(v) == [type |-> "base64", value |-> v]
NumpyImage(v) == [type |-> "numpy", value |-> v]

\* a cached request: its images, and whether its score lies between start and now
CachedRequest(images, recent) == [image |-> images, recent |-> recent]

\* cache.zrangebyscore(key, min=start, max=now): the requests of the interval
RECURSIVE ZRangeByScore(_)
ZRangeByScore(reqs) ==
    IF reqs = <<>> THEN <<>>
    ELSE (IF Head(reqs).recent THEN <<Head(reqs)>> ELSE <<>>) \o ZRangeByScore(Tail(reqs))

\* lines 124-131: the value of a base64 image is taken as it is, any other
\* image is loaded and its bytes are encoded
InferredImageValue(image) ==
    IF image.type = "base64" THEN [base64 |-> image.value, encoded |-> FALSE]
    ELSE [base64 |-> image.value, encoded |-> TRUE]

\* lines 116-122: the images of a request, none when it has no image
ImagesOfRequest(req) == IF req.image.kind = "none" THEN <<>> ELSE req.image.items

\* lines 115-138 for the requests of one model: an entry for each image
RECURSIVE InferencesOf(_)
InferencesOf(reqs) ==
    IF reqs = <<>> THEN <<>>
    ELSE [i \in 1..Len(ImagesOfRequest(Head(reqs))) |->
             [image |-> InferredImageValue(ImagesOfRequest(Head(reqs))[i])]]
         \o InferencesOf(Tail(reqs))

\* lines 132-137: the entries appended to the list of the model id, which is
\* made when the first is appended
AppendedUnder(latest, model_id, inferences) ==
    IF inferences = <<>> THEN latest
    ELSE [k \in DOMAIN latest \cup {model_id} |->
             (IF k \in DOMAIN latest THEN latest[k] ELSE <<>>) \o (IF k = model_id THEN inferences ELSE <<>>)]

\* lines 109-139: the loop over the model ids, from the k-th on
RECURSIVE LatestFrom(_, _, _, _, _, _)
LatestFrom(max, model_ids, cached, k, num_images, latest) ==
    IF k > Len(model_ids) \/ num_images >= max THEN latest
    ELSE LatestFrom(max, model_ids, cached, k + 1,
                    num_images + Len(InferencesOf(ZRangeByScore(cached[model_ids[k]]))),
                    AppendedUnder(latest, model_ids[k], InferencesOf(ZRangeByScore(cached[model_ids[k]]))))

\* get_latest_inferred_images(max)
GetLatestInferredImages(max, model_ids, cached) == LatestFrom(max, model_ids, cached, 1, 0, <<>>)

ModelIds == {"model-1", "model-2"}

\* the requests tried: without image, with an empty list, with one image
\* that is not in a list, with a list of two, and one from before the interval
RequestsTried ==
    {CachedRequest(NoImages, TRUE),
     CachedRequest(ImagesInList(<<>>), TRUE),
     CachedRequest(ImageAlone(Base64Image("a")), TRUE),
     CachedRequest(ImagesInList(<<Base64Image("b"), NumpyImage("c")>>), TRUE),
     CachedRequest(ImagesInList(<<NumpyImage("d")>>), FALSE)}

SeqsUpTo(elements, n) == UNION {[1..k -> elements] : k \in 0..n}

InitLatest ==
    /\ latest_input \in [max : 0..MaxLatest,
                         model_ids : SeqsUpTo(ModelIds, MaxModels),
                         cached : [ModelIds -> SeqsUpTo(RequestsTried, MaxRequests)]]
    /\ latest_pc = "ready"
    /\ latest_output = <<>>

GetLatest ==
    /\ latest_pc = "ready"
    /\ latest_output' = GetLatestInferredImages(latest_input.max, latest_input.model_ids, latest_input.cached)
    /\ latest_pc' = "done"
    /\ UNCHANGED latest_input
    /\ UNCHANGED <<consensusVars, stepVars, presenceVars, mergeVars, iouVars, executorVars, runnerVars>>
    /\ UNCHANGED <<discoverVars, lockVars>>

InitLatestSpec ==
    /\ IdleConsensus /\ IdleStep /\ IdlePresence /\ IdleMerge /\ IdleIou /\ IdleExecutors /\ IdleRunner
    /\ InitLatest /\ IdleDiscover /\ IdleLocks

NextLatest == GetLatest

SpecLatest == InitLatestSpec /\ [][NextLatest]_vars

\* ---- properties (SpecLatest)

RECURSIVE SumOfLengths(_, _)
SumOfLengths(f, keys) ==
    IF keys = {} THEN 0
    ELSE LET k == CHOOSE k \in keys : TRUE IN Len(f[k]) + SumOfLengths(f, keys \ {k})

\* how many inferred images a returned dict holds, over all its model ids
TotalImages(latest) == SumOfLengths(latest, DOMAIN latest)

\* C26: get_latest_inferred_images(max) returns at most max inferred images
\* in all, counted over the model ids of the dict returned.
C26_AtMostMaxImages ==
    latest_pc = "done" => TotalImages(latest_output) <= latest_input.max

\* what holds of the code: max is looked at between two model ids only; the
\* images of the model ids before the last one returned are fewer than max
C26_MaxCheckedBetweenModels ==
    latest_pc = "done" =>
        \/ latest_output = <<>>
        \/ \E last \in DOMAIN latest_output :
              TotalImages(latest_output) - Len(latest_output[last]) < latest_input.max
        \/ Len(latest_input.model_ids) = 2 /\ latest_input.model_ids[1] = latest_input.model_ids[2]

\* =========================================================================
\* SpecOverlap: resolve_batch_consensus over sources that hold several
\* candidates for one seed
\* =========================================================================

MaxOverlapDetections == 3

\* the kinds of detection tried: boxes of class a centred at x = 0, 2 and 4
\* (the one at 2 overlaps the other two equally, IOU 15/35), and one of class b
OverlapKinds ==
    {[class |-> ClassA, tenths |-> 9, x |-> 0], [class |-> ClassA, tenths |-> 9, x |-> 2],
     [class |-> ClassA, tenths |-> 9, x |-> 4], [class |-> ClassB, tenths |-> 9, x |-> 2]}

\* two sources holding up to MaxOverlapDetections detections in all
InitOverlap ==
    /\ \E n \in 0..MaxOverlapDetections :
         \E kinds \in [1..n -> OverlapKinds], asg \in [1..n -> 1..2] :
            /\ Monotone(asg)
            /\ predictions = [s \in 1..2 |-> SourceOf(kinds, asg, s, 1)]
    /\ params \in ParamsTried
    /\ pc = "start"
    /\ parent_id = NoParent
    /\ filtered = <<>>
    /\ cursor = 1
    /\ loop = InitLoop
    /\ result = ConsensusResult(NoError, NoParent, Raised(NoError), <<>>)

InitOverlapSpec == InitOverlap /\ IdleStep /\ IdlePresence /\ IdleUnits

SpecOverlap == InitOverlapSpec /\ [][Next]_vars

\* the detection of a given id among those of the sources
DetectionOfId(preds, id) ==
    CHOOSE d \in AllDetections(preds) : d.id = id

\* the match of the given id is one the seed may have: of another source, not
\* consumed, of the seed's class when class-aware, overlapping the seed by more
\* than iou_threshold, and the first of the greatest IOU among such detections
\* of its source
MatchAsClaimed(seed, preds, considered, p, id) ==
    /\ SourceHolding(preds, id) # seed.source
    /\ id \notin considered
    /\ p.class_aware => DetectionOfId(preds, id).class = seed.detection.class
    /\ RatLT(p.iou_threshold, CalculateIou(seed.detection, DetectionOfId(preds, id)))
    /\ DetectionOfId(preds, id) = BestMatch(seed, preds[SourceHolding(preds, id)], considered, p)

\* the matches of a seed, given by their ids: one per source at most, each as
\* claimed
MatchesAsClaimed(seed, preds, considered, p, ids) ==
    /\ \A k \in 1..Len(ids) : MatchAsClaimed(seed, preds, considered, p, ids[k])
    /\ \A k \in 1..Len(ids) : \A l \in 1..Len(ids) :
          k # l => SourceHolding(preds, ids[k]) # SourceHolding(preds, ids[l])
    /\ \A s \in CorroboratingSources(seed, preds, considered, p) :
          \E k \in 1..Len(ids) : SourceHolding(preds, ids[k]) = s

\* C27: the matches found for a seed hold at most one detection per source,
\* none of the seed's own source, none consumed, only detections whose IOU with
\* the seed is strictly above iou_threshold and, when class_aware, of the seed's
\* class; the match of a source is its candidate of the highest IOU, the first
\* one met when several tie.
C27_MatchesAreBestOfOtherSources ==
    [][(pc = "loop" /\ cursor' = cursor + 1) =>
        MatchesAsClaimed(Seeds[cursor], filtered, loop.considered, params,
                         Tail(loop'.last.members))]_vars

\* two candidates of one source tie for the seed
TiedCandidates(seed, detections, considered, p) ==
    \E i \in 1..Len(detections) : \E j \in (i + 1)..Len(detections) :
        /\ Agrees(seed.detection, detections[i], considered, p)
        /\ Agrees(seed.detection, detections[j], considered, p)
        /\ CalculateIou(seed.detection, detections[i]) = CalculateIou(seed.detection, detections[j])

\* the first seed was matched with the first of two tied candidates of the
\* other source
C27_Witness ==
    /\ pc = "loop"
    /\ cursor = 2
    /\ Len(loop.last.members) = 2
    /\ TiedCandidates(Seeds[1], filtered[2], {}, params)
    /\ loop.last.members[2] = filtered[2][1].id

\* a seed met a candidate that was consumed before and would match otherwise
C27_WitnessConsumed ==
    /\ pc = "loop"
    /\ cursor > 2
    /\ loop.last.members = <<Seeds[cursor - 1].detection.id>>
    /\ \E d \in AllDetections(filtered) :
          /\ d.id \in loop.considered
          /\ SourceHolding(filtered, d.id) # loop.last.source
          /\ Agrees(Seeds[cursor - 1].detection, d, {}, params)

\* ---- DetectionOffset, the parent ids of the step (SpecWorkflow)

\* two parent ids are the same; a parent id is an image name or a detection
\* id, and the two are compared as written
SameParentId(a, b) == ToString(a) = ToString(b)

\* the parent_id list of one element names, position by position, the parents
\* of the detections of that element
ParentIdsOfElement(element) ==
    /\ Len(element.parent_id) = Len(element.predictions)
    /\ \A i \in 1..Len(element.predictions) :
          SameParentId(element.parent_id[i], element.predictions[i].parent_id)

ParentIdsFollowOutput(entry) ==
    \A e \in 1..Len(entry.value) : ParentIdsOfElement(entry.value[e])

\* a nested input gives a nested output of the same length
NestingKept(written, read) ==
    ~read.single => (~written.single /\ Len(written.value) = Len(read.value))

OffsetParentIdsAsClaimed(step) ==
    step.name \in executed =>
        /\ ParentIdsFollowOutput(outputs_lookup[ConstructStepSelector(step.name)])
        /\ NestingKept(outputs_lookup[ConstructStepSelector(step.name)],
                       outputs_lookup[step.predictions.key])

\* C28: in the output of a DetectionOffset step, for a flat and for a nested
\* input, the parent_id entry at each position is the parent_id field of the
\* output detection at that position, and a nested input gives a nested output
\* of the same length.
C28_OffsetParentIdsFollowOutput ==
    OffsetParentIdsAsClaimed(steps.offset) /\ OffsetParentIdsAsClaimed(steps.offset_again)

OffsetParentIdsOfNested(step) ==
    (step.name \in executed /\ ~outputs_lookup[step.predictions.key].single) =>
        OffsetParentIdsAsClaimed(step)

\* for a nested input the parent_id entries are those of the output
\* detections and the nesting is kept
C28_NestedOffsetParentIdsFollowOutput ==
    OffsetParentIdsOfNested(steps.offset) /\ OffsetParentIdsOfNested(steps.offset_again)

\* both offset steps ran on a nested input that holds a detection
C28_NestedWitness ==
    /\ {"offset", "offset_again"} \subseteq executed
    /\ ~outputs_lookup[ModelKey].single
    /\ EntryDetections(outputs_lookup[ConstructStepSelector("offset_again")]) # {}

\* =========================================================================
\* SpecDiscover: calls of ContainerService.discover_containers, directly and
\* through get_container_by_id and get_container_ids
\* =========================================================================

MaxContainers == 2
MaxDiscoverCalls == 2

\* the container that runs another image; the containers 1..MaxContainers run
\* the inference server
OtherContainer == 0

\* a container as the Docker client lists it; the uuid is the one its server
\* reports under /info
DockerContainer(n) == [uuid |-> n, inference_server |-> n # OtherContainer]

\* is_inference_server_container: a tag of the image names the inference server
IsInferenceServerContainer(c) == c.inference_server

\* InferServerContainer(c, details): known by the uuid of its details
InferServerContainer(c) == [id |-> c.uuid]

\* the lists client.containers.list() may return: any of the containers, each
\* once, in the order of their numbers
RECURSIVE ContainerLists(_)
ContainerLists(n) ==
    IF n < OtherContainer THEN {<<>>}
    ELSE ContainerLists(n - 1) \cup {Append(l, DockerContainer(n)) : l \in ContainerLists(n - 1)}

NoResult == <<>>
NoContainer == [found |-> FALSE, id |-> OtherContainer]
FoundContainer(ic) == [found |-> TRUE, id |-> ic.id]

\* get_container_by_id, lines 231-234: the first entry of the given id
ContainerById(containers, wanted) ==
    IF \E i \in 1..Len(containers) : containers[i].id = wanted
    THEN FoundContainer(containers[CHOOSE i \in 1..Len(containers) :
                                      /\ containers[i].id = wanted
                                      /\ \A j \in 1..(i - 1) : containers[j].id # wanted])
    ELSE NoContainer

\* get_container_ids, line 244
ContainerIdsOf(containers) == [i \in 1..Len(containers) |-> containers[i].id]

\* what the caller of discover_containers returns once the discovery is over
ResultOfCaller(caller, containers) ==
    IF caller.method = "get_container_by_id" THEN <<ContainerById(containers, caller.id)>>
    ELSE IF caller.method = "get_container_ids" THEN <<ContainerIdsOf(containers)>>
    ELSE NoResult

NoCaller == [method |-> "none", id |-> OtherContainer]

Callers ==
    {[method |-> "discover_containers", id |-> OtherContainer],
     [method |-> "get_container_ids", id |-> OtherContainer]}
    \cup {[method |-> "get_container_by_id", id |-> n] : n \in 1..MaxContainers}

discoverRest == <<consensusVars, stepVars, presenceVars, mergeVars, iouVars, executorVars,
                  runnerVars, latestVars, lockVars>>

InitDiscover ==
    /\ docker_containers = <<>>
    /\ inference_containers = <<>>
    /\ discover_pc = "idle"
    /\ discover_c = 0
    /\ discover_ic = 0
    /\ discover_calls = 0
    /\ discover_caller = NoCaller
    /\ discover_result = NoResult

\* line 175: a call begins, with what the Docker client lists at that time
DiscoverContainers ==
    /\ discover_pc = "idle"
    /\ discover_calls < MaxDiscoverCalls
    /\ discover_caller' \in Callers
    /\ docker_containers' \in ContainerLists(MaxContainers)
    /\ discover_calls' = discover_calls + 1
    /\ discover_c' = 1
    /\ discover_pc' = "containers"
    /\ UNCHANGED <<inference_containers, discover_ic, discover_result>>
    /\ UNCHANGED discoverRest

\* lines 176-186: the next container of the list, or the end of the call
NextDockerContainer ==
    /\ discover_pc = "containers"
    /\ IF discover_c > Len(docker_containers)
       THEN /\ discover_pc' = "idle"
            /\ discover_result' = ResultOfCaller(discover_caller, inference_containers)
            /\ UNCHANGED <<inference_containers, discover_c, discover_ic>>
       ELSE IF ~IsInferenceServerContainer(docker_containers[discover_c])
       THEN /\ discover_c' = discover_c + 1
            /\ UNCHANGED <<inference_containers, discover_pc, discover_ic, discover_result>>
       ELSE IF Len(inference_containers) = 0
       THEN /\ inference_containers' = <<InferServerContainer(docker_containers[discover_c])>>
            /\ discover_c' = discover_c + 1
            /\ UNCHANGED <<discover_pc, discover_ic, discover_result>>
       ELSE /\ discover_pc' = "entries"
            /\ discover_ic' = 1
            /\ UNCHANGED <<inference_containers, discover_c, discover_result>>
    /\ UNCHANGED <<docker_containers, discover_calls, discover_caller>>
    /\ UNCHANGED discoverRest

\* lines 188-190: the entry met makes the loop append the container unless it
\* has the container's id
EntryAppends(ic, infer_container) == ic.id # infer_container.id

\* lines 187-190: one turn of the loop over self.inference_containers, a list
\* that grows while it is iterated: the iterator stops when its position is
\* past the end the list has then
NextEntry ==
    /\ discover_pc = "entries"
    /\ IF discover_ic > Len(inference_containers)
       THEN /\ discover_pc' = "containers"
            /\ discover_c' = discover_c + 1
            /\ UNCHANGED <<inference_containers, discover_ic>>
       ELSE /\ inference_containers' =
                  IF EntryAppends(inference_containers[discover_ic],
                                  InferServerContainer(docker_containers[discover_c]))
                  THEN Append(inference_containers, InferServerContainer(docker_containers[discover_c]))
                  ELSE inference_containers
            /\ discover_ic' = discover_ic + 1
            /\ UNCHANGED <<discover_pc, discover_c>>
    /\ UNCHANGED <<docker_containers, discover_calls, discover_caller, discover_result>>
    /\ UNCHANGED discoverRest

DiscoverIdleRest ==
    /\ IdleConsensus /\ IdleStep /\ IdlePresence /\ IdleMerge /\ IdleIou /\ IdleExecutors
    /\ IdleRunner /\ IdleLatest /\ IdleLocks

InitDiscoverSpec == InitDiscover /\ DiscoverIdleRest

NextDiscover == DiscoverContainers \/ NextDockerContainer \/ NextEntry

SpecDiscover == InitDiscoverSpec /\ [][NextDiscover]_vars

\* the scheduling of one thread: a call that began goes on
SpecDiscoverFair == SpecDiscover /\ WF_vars(NextDockerContainer) /\ WF_vars(NextEntry)

\* how many entries of the list have the given id
EntriesOf(containers, wanted) ==
    Cardinality({i \in 1..Len(containers) : containers[i].id = wanted})

\* C29: whatever calls of discover_containers were made, directly or through
\* get_container_by_id and get_container_ids, inference_containers holds at
\* most one entry for a container id.
C29_AtMostOneEntryPerContainer ==
    discover_pc = "idle" =>
        \A n \in 1..MaxContainers : EntriesOf(inference_containers, n) <= 1

\* every call of discover_containers returns, although the list grows while
\* it is iterated
C29_EachCallTerminates == (discover_pc # "idle") ~> (discover_pc = "idle")

\* a call through get_container_ids returned the same id twice
C29_DuplicateReturned ==
    /\ discover_pc = "idle"
    /\ discover_caller.method = "get_container_ids"
    /\ \E n \in 1..MaxContainers : EntriesOf(inference_containers, n) > 1

\* =========================================================================
\* SpecLocks: concurrent calls of LockedLoadModelManagerDecorator.add_model
\* =========================================================================

MaxLoadCalls == 3

LoadCalls == 1..MaxLoadCalls
NoCall == 0

\* a lock name shared by every model id
LockStrOfAnyModel(z) == <<"locks:model-load:", "">>

\* lock_str = lambda z: f"locks:model-load:{z}"
LockStr(z) == <<"locks:model-load:", z>>

LockNames == {LockStr(z) : z \in ModelIds}

\* cache.lock(name, expire=180.0) can be acquired: nobody holds it
LockFree(owners, name) == owners[name] = NoCall

\* leaving the with block: the lock is released if the call still holds it
Released(owners, name, call) ==
    [owners EXCEPT ![name] = IF @ = call THEN NoCall ELSE @]

InitLocks ==
    /\ load_model_id \in [LoadCalls -> ModelIds]
    /\ load_pc = [i \in LoadCalls |-> "start"]
    /\ lock_owner = [name \in LockNames |-> NoCall]
    /\ lock_lost = {}

lockRest == <<consensusVars, stepVars, presenceVars, mergeVars, iouVars, executorVars,
              runnerVars, latestVars, discoverVars>>

\* line 20: the call enters the with block once the lock of its model id is
\* free, and is then executing the wrapped add_model
AcquireLock(i) ==
    /\ load_pc[i] = "start"
    /\ LockFree(lock_owner, LockStr(load_model_id[i]))
    /\ lock_owner' = [lock_owner EXCEPT ![LockStr(load_model_id[i])] = i]
    /\ load_pc' = [load_pc EXCEPT ![i] = "loading"]
    /\ UNCHANGED <<load_model_id, lock_lost>>
    /\ UNCHANGED lockRest

\* expire=180.0: the lock of a call that has been loading for longer is no
\* longer held
LockExpires(i) ==
    /\ load_pc[i] = "loading"
    /\ lock_owner[LockStr(load_model_id[i])] = i
    /\ lock_owner' = [lock_owner EXCEPT ![LockStr(load_model_id[i])] = NoCall]
    /\ lock_lost' = lock_lost \cup {i}
    /\ UNCHANGED <<load_model_id, load_pc>>
    /\ UNCHANGED lockRest

\* line 21: super().add_model returns, and the with block is left
LoadReturns(i) ==
    /\ load_pc[i] = "loading"
    /\ load_pc' = [load_pc EXCEPT ![i] = "returned"]
    /\ lock_owner' = Released(lock_owner, LockStr(load_model_id[i]), i)
    /\ UNCHANGED <<load_model_id, lock_lost>>
    /\ UNCHANGED lockRest

\* line 21: super().add_model raises, and the with block is left
LoadRaises(i) ==
    /\ load_pc[i] = "loading"
    /\ load_pc' = [load_pc EXCEPT ![i] = "raised"]
    /\ lock_owner' = Released(lock_owner, LockStr(load_model_id[i]), i)
    /\ UNCHANGED <<load_model_id, lock_lost>>
    /\ UNCHANGED lockRest

LocksIdleRest ==
    /\ IdleConsensus /\ IdleStep /\ IdlePresence /\ IdleMerge /\ IdleIou /\ IdleExecutors
    /\ IdleRunner /\ IdleLatest /\ IdleDiscover

InitLocksSpec == InitLocks /\ LocksIdleRest

NextLocks ==
    \/ \E i \in LoadCalls : AcquireLock(i)
    \/ \E i \in LoadCalls : LockExpires(i)
    \/ \E i \in LoadCalls : LoadReturns(i)
    \/ \E i \in LoadCalls : LoadRaises(i)

\* every thread goes on and every load ends
LocksFairness ==
    \A i \in LoadCalls : WF_vars(AcquireLock(i)) /\ WF_vars(LoadReturns(i) \/ LoadRaises(i))

SpecLocks == InitLocksSpec /\ [][NextLocks]_vars /\ LocksFairness

\* the calls that are executing the wrapped load for a model id
LoadingFor(z) == {i \in LoadCalls : load_model_id[i] = z /\ load_pc[i] = "loading"}

\* the call has left the with block
LoadEnded(i) == load_pc[i] \in {"returned", "raised"}

OneLoadPerModelWithinExpiry ==
    \A z \in ModelIds : Cardinality(LoadingFor(z) \ lock_lost) <= 1

\* a call that has left the with block holds no lock
LockReleasedAfterLoad ==
    \A i \in LoadCalls : LoadEnded(i) => lock_owner[LockStr(load_model_id[i])] # i

\* a call that cannot enter is kept out by a call for its own model id
OnlySameModelExcludes ==
    \A i \in LoadCalls :
        (load_pc[i] = "start" /\ ~LockFree(lock_owner, LockStr(load_model_id[i])))
            => load_model_id[lock_owner[LockStr(load_model_id[i])]] = load_model_id[i]

\* a call that waits enters in the end
WaitingCallProceeds ==
    \A i \in LoadCalls : (load_pc[i] = "start") ~> (load_pc[i] # "start")

====
